---- MODULE Spec2Model ----
(***************************************************************************)
(* A model of the blockchain core of Blockchain-Node-Prototype: the        *)
(* Transaction model (src/unnamed/part_002), the Block model               *)
(* (src/unnamed/part_003) and the Blockchain chain state                   *)
(* (src/unnamed/part_001).                                                 *)
(*                                                                         *)
(* Strings are sequences of tokens (naturals): decimal digits 0..9 are the *)
(* tokens 0..9, so fmt.Sprintf("%d") is the sequence of decimal digits and *)
(* string concatenation is \o.  sha256 + hex is modelled as a              *)
(* collision-free function of its input whose number of leading "0" digits *)
(* is a deterministic pseudo-random function of the input.                 *)
(*                                                                         *)
(* Monetary values are counted in units of 10^8 base units (TLC integers   *)
(* are 32 bits wide): the genesis reward 5000000000 is 50.                 *)
(***************************************************************************)
EXTENDS Integers, Sequences, FiniteSets, TLC

\* ------------------------------------------------------------------ bounds
\* Longest chain explored (genesis included).
MaxBlocks == 3
\* The clock (time.Now().Unix()) runs from 0 to MaxTime.
MaxTime == 1
\* Nonces tried by the model of the mining loop, searched NonceWindow at a time.
MaxNonce == 320
NonceWindow == 16
\* Writes a client makes through values the accessors returned.
MaxWrites == 1
\* Calls each goroutine of the concurrent specification makes.
MaxCalls == 2
\* Longest chain the miner goroutine builds beside a caller of String.
MaxRaceBlocks == 11
\* Longest chain of the specification of the difficulty adjustment.
MaxLongBlocks == 41
\* Largest difficulty passed to Mine directly.
MaxMineDifficulty == 5

\* --------------------------------------------------------------- strings
\* The tokens that are not decimal digits: the minus sign, the delimiters of a
\* digest, the punctuation of the JSON encoding, two bytes that are not valid
\* UTF-8 (0xff and 0xfe), the replacement character U+FFFD, the backslash
\* and the five characters "ufffd" that follow a backslash in an escape.
Tok == [MINUS |-> 10, OPEN |-> 11, CLOSE |-> 12, LB |-> 13, RB |-> 14,
        SEP |-> 15, QT |-> 16, BAD |-> 17, REPL |-> 18, ESC |-> 19,
        UFFFD |-> 23, BAD2 |-> 24, NULL |-> 25]
MINUS == Tok.MINUS
OPEN == Tok.OPEN
CLOSE == Tok.CLOSE
LB == Tok.LB
RB == Tok.RB
SEP == Tok.SEP
QT == Tok.QT
BAD == Tok.BAD
REPL == Tok.REPL
ESC == Tok.ESC
UFFFD == Tok.UFFFD
BAD2 == Tok.BAD2
NULL == Tok.NULL

EmptyString == <<>>

\* The decimal digits of a natural number, most significant first.
RECURSIVE Digits(_)
Digits(n) == IF n < 10 THEN <<n>> ELSE Digits(n \div 10) \o <<n % 10>>

\* fmt.Sprintf("%d", n) and the JSON encoding of an integer.
FmtInt(n) == IF n < 0 THEN <<MINUS>> \o Digits(-n) ELSE Digits(n)

\* n copies of the digit "0".
Zeros(n) == [i \in 1..n |-> 0]

\* The address strings used by the explored calls, and their tokens.
Addresses == {"genesis", "miner1", "alice"}
AddrTok(a) == CASE a = "genesis" -> <<20>>
                [] a = "miner1" -> <<21>>
                [] a = "alice" -> <<22>>
                [] OTHER -> <<29>>

\* The characters json.Marshal does not copy as they are.
Escaped == {QT, ESC, BAD, BAD2}

\* json.Marshal writing the characters of a string (encodeState.string): a
\* backslash before every quote and backslash, the escape text \ufffd for
\* every byte that is not valid UTF-8, every other character (the character
\* U+FFFD too) as it is: s from position p on.
RECURSIVE Escape(_, _)
Escape(s, p) ==
    IF \A k \in p..Len(s) : s[k] \notin Escaped THEN SubSeq(s, p, Len(s))
    ELSE LET k == CHOOSE k \in p..Len(s) :
                      s[k] \in Escaped /\ \A r \in p..(k - 1) : s[r] \notin Escaped
         IN SubSeq(s, p, k - 1)
            \o (IF s[k] \in {BAD, BAD2} THEN <<ESC, UFFFD>> ELSE <<ESC, s[k]>>)
            \o Escape(s, k + 1)

\* A JSON string literal.
Quoted(s) ==
    IF SelectSeq(s, LAMBDA x : x \in Escaped) = <<>> THEN <<QT>> \o s \o <<QT>>
    ELSE <<QT>> \o Escape(s, 1) \o <<QT>>

\* ------------------------------------------------------------------ sha256
\* The count of leading zero digits of a modelled digest is in 0..ZeroBits.
ZeroBits == 6
ChecksumMod == 2 ^ ZeroBits

\* A positional checksum of the input: of its length and its last six tokens
\* (odd weights, so a change of any one of them changes the checksum).
TailTok(s, j) == IF Len(s) >= j THEN s[Len(s) - j + 1] + 1 ELSE 0
Checksum(s) ==
    (Len(s) + TailTok(s, 1) + 3 * TailTok(s, 2) + 9 * TailTok(s, 3) + 27 * TailTok(s, 4)
     + 81 * TailTok(s, 5) + 243 * TailTok(s, 6)) % ChecksumMod

\* The number of trailing zero bits of v, at most ZeroBits.
RECURSIVE Ruler(_, _)
Ruler(v, k) == IF k >= ZeroBits \/ v % 2 = 1 THEN k ELSE Ruler(v \div 2, k + 1)

\* hex.EncodeToString(sha256.Sum256(data)): injective in data, with a
\* pseudo-random count of leading zero digits. The digits of the digest
\* stand for the hashed bytes themselves, so the data hashed here is
\* valid UTF-8 (what json.Marshal hands to calculateID always is).
Sha256Hex(data) ==
    Zeros(Ruler(Checksum(data), 0)) \o <<OPEN>> \o data \o <<CLOSE>>

\* ------------------------------------------------------------ transactions
TxInput(txid, idx, pk, sig) ==
    [TxID |-> txid, OutputIndex |-> idx, PublicKey |-> pk, Signature |-> sig]

TxOutput(v, a) == [Value |-> v, Address |-> a]

RECURSIVE JoinSeq(_, _)
JoinSeq(parts, i) ==
    IF i > Len(parts) THEN EmptyString
    ELSE parts[i] \o (IF i < Len(parts) THEN <<SEP>> ELSE EmptyString)
         \o JoinSeq(parts, i + 1)

JsonInput(in) ==
    <<LB>> \o Quoted(in.TxID) \o <<SEP>> \o FmtInt(in.OutputIndex) \o <<SEP>>
    \o Quoted(AddrTok(in.PublicKey)) \o <<SEP>> \o Quoted(in.Signature) \o <<RB>>

JsonOutput(out) ==
    <<LB>> \o FmtInt(out.Value) \o <<SEP>> \o Quoted(AddrTok(out.Address)) \o <<RB>>

\* json.Marshal of a slice: null for a nil slice, the bracketed elements
\* for any other one. The field Nil of a transaction or block names its
\* slice fields that are nil (a nil slice has no elements).
JsonSlice(isNil, parts) ==
    IF isNil THEN <<NULL>> ELSE <<LB>> \o JoinSeq(parts, 1) \o <<RB>>

\* json.Marshal of a Transaction.
JsonTransaction(tx) ==
    <<LB>> \o Quoted(tx.ID) \o <<SEP>>
    \o JsonSlice("Inputs" \in tx.Nil,
                 [i \in 1..Len(tx.Inputs) |-> JsonInput(tx.Inputs[i])])
    \o <<SEP>>
    \o JsonSlice("Outputs" \in tx.Nil,
                 [i \in 1..Len(tx.Outputs) |-> JsonOutput(tx.Outputs[i])])
    \o <<SEP>> \o FmtInt(tx.Timestamp) \o <<SEP>> \o Quoted(tx.Signature) \o <<RB>>

\* Transaction.calculateID: the hash of the transaction with an empty ID.
calculateID(tx) ==
    Sha256Hex(JsonTransaction([ID |-> EmptyString, Inputs |-> tx.Inputs,
                               Outputs |-> tx.Outputs, Timestamp |-> tx.Timestamp,
                               Signature |-> tx.Signature, Nil |-> tx.Nil]))

\* NewTransaction(inputs, outputs) at clock value t; nil names the
\* arguments that are nil slices.
NewTransactionOf(nil, inputs, outputs, t) ==
    LET tx == [ID |-> EmptyString, Inputs |-> inputs, Outputs |-> outputs,
               Timestamp |-> t, Signature |-> EmptyString, Nil |-> nil]
    IN [tx EXCEPT !.ID = calculateID(tx)]

\* NewTransaction with slices that are not nil.
NewTransaction(inputs, outputs, t) == NewTransactionOf({}, inputs, outputs, t)

\* NewCoinbaseTransaction(toAddress, reward) at clock value t.
NewCoinbaseTransaction(toAddress, reward, t) ==
    LET tx == [ID |-> EmptyString, Inputs |-> <<>>,
               Outputs |-> <<TxOutput(reward, toAddress)>>,
               Timestamp |-> t, Signature |-> EmptyString, Nil |-> {}]
    IN [tx EXCEPT !.ID = calculateID(tx)]

IsCoinbase(tx) == Len(tx.Inputs) = 0

\* An error is the sequence of its message parts; nil is the empty sequence.
NoErr == <<>>
IsErr(e) == Len(e) > 0

\* Transaction.Validate: the error it returns.
TxValidate(tx) ==
    IF tx.ID # calculateID(tx) THEN <<"invalid transaction ID">>
    ELSE IF IsCoinbase(tx)
    THEN (IF Len(tx.Outputs) # 1
          THEN <<"coinbase transaction must have exactly one output">>
          ELSE NoErr)
    ELSE IF Len(tx.Inputs) = 0 THEN <<"transaction must have at least one input">>
    ELSE IF Len(tx.Outputs) = 0 THEN <<"transaction must have at least one output">>
    ELSE IF \E i \in 1..Len(tx.Outputs) : tx.Outputs[i].Value <= 0
    THEN <<"output value must be positive">>
    ELSE NoErr

\* ------------------------------------------------------------------ blocks
\* The previous hash of the genesis block: 64 "0" digits.
SentinelLen == 64
GenesisPreviousHash == Zeros(SentinelLen)
GenesisReward == 50
GenesisDifficulty == 1
BlockVersion == 1

\* MerkleLevel hashing the last leaf of an odd level by itself, not doubled.
MerkleLevelSingleOdd(hashes) ==
    [k \in 1..((Len(hashes) + 1) \div 2) |->
        IF 2 * k <= Len(hashes)
        THEN Sha256Hex(hashes[2 * k - 1] \o hashes[2 * k])
        ELSE Sha256Hex(hashes[2 * k - 1])]

\* Block.buildMerkleTree: one level of pairing, then the recursion.
MerkleLevel(hashes) ==
    [k \in 1..((Len(hashes) + 1) \div 2) |->
        IF 2 * k <= Len(hashes)
        THEN Sha256Hex(hashes[2 * k - 1] \o hashes[2 * k])
        ELSE Sha256Hex(hashes[2 * k - 1] \o hashes[2 * k - 1])]

RECURSIVE buildMerkleTree(_)
buildMerkleTree(hashes) ==
    IF Len(hashes) = 0 THEN EmptyString
    ELSE IF Len(hashes) = 1 THEN hashes[1]
    ELSE buildMerkleTree(MerkleLevel(hashes))

\* Block.calculateMerkleRoot.
calculateMerkleRoot(txs) ==
    IF Len(txs) = 0 THEN EmptyString
    ELSE buildMerkleTree([i \in 1..Len(txs) |-> txs[i].ID])

\* The header data Block.calculateHash formats: "%d%s%s%d%d%d%d".
HeaderData(h) ==
    FmtInt(h.Version) \o h.PreviousHash \o h.MerkleRoot \o FmtInt(h.Timestamp)
    \o FmtInt(h.Difficulty) \o FmtInt(h.Nonce) \o FmtInt(h.Height)

\* Block.calculateHash.
calculateHash(b) == Sha256Hex(HeaderData(b.Header))

\* NewBlock(transactions, previousHash, height) at clock value t.
NewBlock(transactions, previousHash, height, t) ==
    [Header |-> [Version |-> BlockVersion, PreviousHash |-> previousHash,
                 MerkleRoot |-> calculateMerkleRoot(transactions),
                 Timestamp |-> t, Difficulty |-> 0, Nonce |-> 0,
                 Hash |-> EmptyString, Height |-> height],
     Transactions |-> transactions, Nil |-> {}]

\* NewGenesisBlock() at clock value t.
NewGenesisBlock(t) ==
    LET coinbase == NewCoinbaseTransaction("genesis", GenesisReward, t)
        g == [Header |-> [Version |-> BlockVersion,
                          PreviousHash |-> GenesisPreviousHash,
                          MerkleRoot |-> calculateMerkleRoot(<<coinbase>>),
                          Timestamp |-> t, Difficulty |-> GenesisDifficulty,
                          Nonce |-> 0, Hash |-> EmptyString, Height |-> 0],
              Transactions |-> <<coinbase>>, Nil |-> {}]
    IN [g EXCEPT !.Header.Hash = calculateHash(g)]

getTarget(difficulty) == Zeros(difficulty)

\* isHashValid: hash[:len(target)] == target.
isHashValid(hash, target) ==
    /\ Len(target) <= Len(hash)
    /\ SubSeq(hash, 1, Len(target)) = target

\* The nonces of n+1..n+NonceWindow whose hash meets the target.
NonceHits(b, target, n) ==
    {k \in (n + 1)..(n + NonceWindow) :
        isHashValid(calculateHash([b EXCEPT !.Header.Nonce = k]), target)}

\* The nonce loop of Block.Mine, from nonce n: the first nonce after n whose
\* hash meets the target (0 when none is found up to MaxNonce).
RECURSIVE MineNonce(_, _, _)
MineNonce(b, target, n) ==
    LET hits == NonceHits(b, target, n)
    IN IF hits # {} THEN CHOOSE k \in hits : \A m \in hits : k <= m
       ELSE IF n + NonceWindow >= MaxNonce THEN 0
       ELSE MineNonce(b, target, n + NonceWindow)

MineTerminates(b, difficulty) ==
    MineNonce([b EXCEPT !.Header.Difficulty = difficulty],
              getTarget(difficulty), b.Header.Nonce) # 0

\* Mine storing the winning nonce and leaving the hash as it was.
MineStaleHash(b, difficulty) ==
    LET d == [b EXCEPT !.Header.Difficulty = difficulty]
    IN [d EXCEPT !.Header.Nonce = MineNonce(d, getTarget(difficulty), d.Header.Nonce)]

\* Mine finding the nonce for the given difficulty and leaving the
\* difficulty field of the header as NewBlock set it.
MineUnrecorded(b, difficulty) ==
    LET n == MineNonce(b, getTarget(difficulty), b.Header.Nonce)
        m == [b EXCEPT !.Header.Nonce = n]
    IN [m EXCEPT !.Header.Hash = calculateHash(m)]

\* Block.Mine(difficulty).
Mine(b, difficulty) ==
    LET d == [b EXCEPT !.Header.Difficulty = difficulty]
        n == MineNonce(d, getTarget(difficulty), d.Header.Nonce)
        m == [d EXCEPT !.Header.Nonce = n]
    IN [m EXCEPT !.Header.Hash = calculateHash(m)]

\* The first transaction of txs that fails Transaction.Validate (0: none).
FirstInvalidTx(txs) ==
    LET bad == {i \in 1..Len(txs) : IsErr(TxValidate(txs[i]))}
    IN IF bad = {} THEN 0 ELSE CHOOSE i \in bad : \A j \in bad : i <= j

\* Validate without the count of the coinbase transactions.
ValidateUncounted(b, previousBlock) ==
    IF b.Header.Hash # calculateHash(b) THEN <<"invalid block hash">>
    ELSE IF Len(previousBlock) = 1
            /\ b.Header.PreviousHash # previousBlock[1].Header.Hash
    THEN <<"invalid previous hash">>
    ELSE IF Len(previousBlock) = 1
            /\ b.Header.Height # previousBlock[1].Header.Height + 1
    THEN <<"invalid block height">>
    ELSE IF b.Header.MerkleRoot # calculateMerkleRoot(b.Transactions)
    THEN <<"invalid merkle root">>
    ELSE IF Len(b.Transactions) = 0
    THEN <<"block must contain at least one transaction">>
    ELSE IF ~IsCoinbase(b.Transactions[1])
    THEN <<"first transaction must be coinbase">>
    ELSE IF FirstInvalidTx(b.Transactions) # 0
    THEN <<"invalid transaction">>
         \o TxValidate(b.Transactions[FirstInvalidTx(b.Transactions)])
    ELSE NoErr

\* Validate comparing the heights before the previous hashes (and without
\* the count of the coinbase transactions).
ValidateHeightFirst(b, previousBlock) ==
    IF b.Header.Hash # calculateHash(b) THEN <<"invalid block hash">>
    ELSE IF Len(previousBlock) = 1
            /\ b.Header.Height # previousBlock[1].Header.Height + 1
    THEN <<"invalid block height">>
    ELSE IF Len(previousBlock) = 1
            /\ b.Header.PreviousHash # previousBlock[1].Header.Hash
    THEN <<"invalid previous hash">>
    ELSE ValidateUncounted(b, previousBlock)

\* Block.Validate(previousBlock): previousBlock is <<>> for nil, <<p>> else.
Validate(b, previousBlock) ==
    IF b.Header.Hash # calculateHash(b) THEN <<"invalid block hash">>
    ELSE IF Len(previousBlock) = 1
            /\ b.Header.PreviousHash # previousBlock[1].Header.Hash
    THEN <<"invalid previous hash">>
    ELSE IF Len(previousBlock) = 1
            /\ b.Header.Height # previousBlock[1].Header.Height + 1
    THEN <<"invalid block height">>
    ELSE IF b.Header.MerkleRoot # calculateMerkleRoot(b.Transactions)
    THEN <<"invalid merkle root">>
    ELSE IF Len(b.Transactions) = 0
    THEN <<"block must contain at least one transaction">>
    ELSE IF ~IsCoinbase(b.Transactions[1])
    THEN <<"first transaction must be coinbase">>
    ELSE IF FirstInvalidTx(b.Transactions) # 0
    THEN <<"invalid transaction">>
         \o TxValidate(b.Transactions[FirstInvalidTx(b.Transactions)])
    ELSE IF Cardinality({i \in 1..Len(b.Transactions) :
                            IsCoinbase(b.Transactions[i])}) # 1
    THEN <<"block must contain exactly one coinbase transaction">>
    ELSE NoErr

\* ------------------------------------------------------------- chain state
\* A Blockchain value is a record: heap (the Block objects, by address),
\* blocks (bc.blocks, a sequence of addresses: []*Block), difficulty and
\* utxoSet (a function from the address strings that have a bucket to the
\* bucket, a sequence of TxOutput).  Index i of bc.blocks in the source is
\* position i + 1 here.
InitialDifficulty == 4
AdjustInterval == 10
FastSeconds == 30
SlowSeconds == 60

EmptyMap == [a \in {} |-> <<>>]

BlockAt(c, i) == c.heap[c.blocks[i]]

\* The blocks of the chain, in chain order.
ChainOf(c) == [i \in 1..Len(c.blocks) |-> BlockAt(c, i)]

\* SpendInput taking the last entry of the bucket.
SpendInputNewest(u, in) ==
    IF in.PublicKey \in DOMAIN u /\ Len(u[in.PublicKey]) > 0
    THEN IF Len(u[in.PublicKey]) = 1
         THEN [a \in DOMAIN u \ {in.PublicKey} |-> u[a]]
         ELSE [u EXCEPT ![in.PublicKey] = SubSeq(@, 1, Len(@) - 1)]
    ELSE u

\* One input of a non-coinbase transaction: the first entry of the spender's
\* bucket goes, and the bucket with it when it becomes empty.
SpendInput(u, in) ==
    IF in.PublicKey \in DOMAIN u /\ Len(u[in.PublicKey]) > 0
    THEN IF Len(u[in.PublicKey]) = 1
         THEN [a \in DOMAIN u \ {in.PublicKey} |-> u[a]]
         ELSE [u EXCEPT ![in.PublicKey] = Tail(@)]
    ELSE u

\* AddOutput with the bucket replaced instead of extended.
AddOutputReplaces(u, out) ==
    [a \in DOMAIN u \cup {out.Address} |->
        IF a = out.Address THEN <<out>> ELSE u[a]]

\* One output: appended to the bucket of its address.
AddOutput(u, out) ==
    [a \in DOMAIN u \cup {out.Address} |->
        IF a = out.Address
        THEN (IF a \in DOMAIN u THEN Append(u[a], out) ELSE <<out>>)
        ELSE u[a]]

RECURSIVE SpendInputs(_, _, _)
SpendInputs(u, ins, i) ==
    IF i > Len(ins) THEN u ELSE SpendInputs(SpendInput(u, ins[i]), ins, i + 1)

RECURSIVE AddOutputs(_, _, _)
AddOutputs(u, outs, i) ==
    IF i > Len(outs) THEN u ELSE AddOutputs(AddOutput(u, outs[i]), outs, i + 1)

ApplyTx(u, tx) ==
    AddOutputs(IF IsCoinbase(tx) THEN u ELSE SpendInputs(u, tx.Inputs, 1),
               tx.Outputs, 1)

RECURSIVE ApplyTxs(_, _, _)
ApplyTxs(u, txs, i) ==
    IF i > Len(txs) THEN u ELSE ApplyTxs(ApplyTx(u, txs[i]), txs, i + 1)

\* Blockchain.updateUTXOSet(block) on the index u.
updateUTXOSet(u, block) == ApplyTxs(u, block.Transactions, 1)

\* isValidInput requiring an indexed output under the input's public key.
isValidInputIndexed(c, in) == in.PublicKey \in DOMAIN c.utxoSet

\* Blockchain.isValidInput.
isValidInput(c, in) == TRUE

\* Blockchain.validateTransactions(block).
validateTransactions(c, block) ==
    IF \E i \in 2..Len(block.Transactions) :
          \E j \in 1..Len(block.Transactions[i].Inputs) :
             ~isValidInput(c, block.Transactions[i].Inputs[j])
    THEN <<"invalid input in transaction">>
    ELSE NoErr

\* adjustDifficulty with the fast threshold taken inclusively.
adjustDifficultyInclusive(c) ==
    IF Len(c.blocks) < 2 THEN c
    ELSE LET lastBlock == BlockAt(c, Len(c.blocks))
             prevBlock == BlockAt(c, Len(c.blocks) - 1)
             timeDiff == lastBlock.Header.Timestamp - prevBlock.Header.Timestamp
         IN IF timeDiff <= FastSeconds
            THEN [c EXCEPT !.difficulty = @ + 1]
            ELSE IF timeDiff > SlowSeconds /\ c.difficulty > 1
            THEN [c EXCEPT !.difficulty = @ - 1]
            ELSE c

\* adjustDifficulty lowering the difficulty whatever it is.
adjustDifficultyNoFloor(c) ==
    IF Len(c.blocks) < 2 THEN c
    ELSE LET lastBlock == BlockAt(c, Len(c.blocks))
             prevBlock == BlockAt(c, Len(c.blocks) - 1)
             timeDiff == lastBlock.Header.Timestamp - prevBlock.Header.Timestamp
         IN IF timeDiff < FastSeconds
            THEN [c EXCEPT !.difficulty = @ + 1]
            ELSE IF timeDiff > SlowSeconds
            THEN [c EXCEPT !.difficulty = @ - 1]
            ELSE c

\* Blockchain.adjustDifficulty.
adjustDifficulty(c) ==
    IF Len(c.blocks) < 2 THEN c
    ELSE LET lastBlock == BlockAt(c, Len(c.blocks))
             prevBlock == BlockAt(c, Len(c.blocks) - 1)
             timeDiff == lastBlock.Header.Timestamp - prevBlock.Header.Timestamp
         IN IF timeDiff < FastSeconds
            THEN [c EXCEPT !.difficulty = @ + 1]
            ELSE IF timeDiff > SlowSeconds /\ c.difficulty > 1
            THEN [c EXCEPT !.difficulty = @ - 1]
            ELSE c

\* NewBlockchain without the genesis block applied to the index.
NewBlockchainEmptyIndex(t) ==
    [heap |-> <<NewGenesisBlock(t)>>, blocks |-> <<1>>,
     difficulty |-> InitialDifficulty, utxoSet |-> EmptyMap]

\* NewBlockchain() at clock value t.
NewBlockchain(t) ==
    LET genesis == NewGenesisBlock(t)
    IN [heap |-> <<genesis>>, blocks |-> <<1>>,
        difficulty |-> InitialDifficulty,
        utxoSet |-> updateUTXOSet(EmptyMap, genesis)]

\* The block AddBlock builds on lastBlock and mines, at clock value t.
Candidate(lastBlock, diff, transactions, t) ==
    Mine(NewBlock(transactions, lastBlock.Header.Hash,
                  lastBlock.Header.Height + 1, t), diff)

\* The mining loop of AddBlock ends within the nonces the model tries.
CanMine(lastBlock, diff, transactions, t) ==
    MineTerminates(NewBlock(transactions, lastBlock.Header.Hash,
                            lastBlock.Header.Height + 1, t), diff)

\* AddBlock with both validations left out.
AddBlockErrUnchecked(c, lastBlock, newBlock) == NoErr

\* AddBlock checking the inputs only, with Block.Validate left out.
AddBlockErrInputsOnly(c, lastBlock, newBlock) ==
    IF IsErr(validateTransactions(c, newBlock))
    THEN <<"transaction validation failed">> \o validateTransactions(c, newBlock)
    ELSE NoErr

\* The error AddBlock returns for the mined block.
AddBlockErr(c, lastBlock, newBlock) ==
    IF IsErr(Validate(newBlock, <<lastBlock>>))
    THEN <<"block validation failed">> \o Validate(newBlock, <<lastBlock>>)
    ELSE IF IsErr(validateTransactions(c, newBlock))
    THEN <<"transaction validation failed">> \o validateTransactions(c, newBlock)
    ELSE NoErr

\* The append writing over the last entry instead of extending the slice.
AppendBlockOverTip(c, newBlock) ==
    [c EXCEPT !.heap = Append(@, newBlock),
              !.blocks = [@ EXCEPT ![Len(c.blocks)] = Len(c.heap) + 1]]

\* bc.blocks = append(bc.blocks, newBlock).
AppendBlock(c, newBlock) ==
    [c EXCEPT !.heap = Append(@, newBlock),
               !.blocks = Append(@, Len(c.heap) + 1)]

\* The commit adjusting the difficulty at every height.
CommitAdjustsAlways(c, newBlock) ==
    adjustDifficulty([AppendBlock(c, newBlock) EXCEPT
                         !.utxoSet = updateUTXOSet(@, newBlock)])

\* The commit without the UTXO update.
CommitSkipsUTXO(c, newBlock) ==
    LET appended == AppendBlock(c, newBlock)
    IN IF newBlock.Header.Height % AdjustInterval = 0
       THEN adjustDifficulty(appended)
       ELSE appended

\* The chain after a validated block is appended: the append, the UTXO
\* update and, at a height divisible by AdjustInterval, the adjustment.
Commit(c, newBlock) ==
    LET appended == AppendBlock(c, newBlock)
        updated == [appended EXCEPT !.utxoSet = updateUTXOSet(@, newBlock)]
    IN IF newBlock.Header.Height % AdjustInterval = 0
       THEN adjustDifficulty(updated)
       ELSE updated

\* The block the chain's last entry points to.
Tip(c) == BlockAt(c, Len(c.blocks))

\* AddBlock that indexes the outputs of the mined block before it validates
\* the block.
AddBlockIndexesFirst(c, transactions, t) ==
    LET lastBlock == Tip(c)
        newBlock == Candidate(lastBlock, c.difficulty, transactions, t)
        err == AddBlockErr(c, lastBlock, newBlock)
    IN IF IsErr(err)
       THEN [bc |-> [c EXCEPT !.utxoSet = updateUTXOSet(@, newBlock)], err |-> err]
       ELSE [bc |-> Commit(c, newBlock), err |-> NoErr]

\* AddBlock that commits the block before it validates it.
AddBlockAppendsFirst(c, transactions, t) ==
    LET lastBlock == Tip(c)
        newBlock == Candidate(lastBlock, c.difficulty, transactions, t)
    IN [bc |-> Commit(c, newBlock), err |-> AddBlockErr(c, lastBlock, newBlock)]

\* Blockchain.AddBlock(transactions) at clock value t: the chain it leaves
\* and the error it returns.
AddBlock(c, transactions, t) ==
    LET lastBlock == Tip(c)
        newBlock == Candidate(lastBlock, c.difficulty, transactions, t)
        err == AddBlockErr(c, lastBlock, newBlock)
    IN IF IsErr(err) THEN [bc |-> c, err |-> err]
       ELSE [bc |-> Commit(c, newBlock), err |-> NoErr]

\* ------------------------------------------------------------- accessors
\* A *Block is the address of the Block object, NilPtr for nil.
NilPtr == 0

GetLatestBlock(c) ==
    IF Len(c.blocks) = 0 THEN NilPtr ELSE c.blocks[Len(c.blocks)]

\* GetBlock taking the height as a count from 1.
GetBlockFromOne(c, height) ==
    IF height < 1 \/ height > Len(c.blocks)
    THEN [val |-> NilPtr, err |-> <<"block height out of range">>]
    ELSE [val |-> c.blocks[height], err |-> NoErr]

\* Blockchain.GetBlock(height): the pointer at that index, or the error.
GetBlock(c, height) ==
    IF height < 0 \/ height >= Len(c.blocks)
    THEN [val |-> NilPtr, err |-> <<"block height out of range">>]
    ELSE [val |-> c.blocks[height + 1], err |-> NoErr]

GetBlockByHash(c, hash) ==
    LET found == {i \in 1..Len(c.blocks) : BlockAt(c, i).Header.Hash = hash}
    IN IF found = {} THEN [val |-> NilPtr, err |-> <<"block not found">>]
       ELSE [val |-> c.blocks[CHOOSE i \in found : \A j \in found : i <= j],
             err |-> NoErr]

GetHeight(c) == Len(c.blocks) - 1

GetDifficulty(c) == c.difficulty

\* The walk of ValidateChain starting one block late.
FirstInvalidBlockLate(c) ==
    LET bad == {i \in 2..(Len(c.blocks) - 1) :
                   IsErr(Validate(BlockAt(c, i + 1), <<BlockAt(c, i)>>))}
    IN IF bad = {} THEN 0 ELSE CHOOSE i \in bad : \A j \in bad : i <= j

\* The index (of the source: from 1) of the first block that fails
\* Block.Validate against its predecessor, 0 when none does.
FirstInvalidBlock(c) ==
    LET bad == {i \in 1..(Len(c.blocks) - 1) :
                   IsErr(Validate(BlockAt(c, i + 1), <<BlockAt(c, i)>>))}
    IN IF bad = {} THEN 0 ELSE CHOOSE i \in bad : \A j \in bad : i <= j

\* Blockchain.ValidateChain: the failing index and the error.
ValidateChain(c) ==
    LET i == FirstInvalidBlock(c)
    IN IF i = 0 THEN [val |-> 0, err |-> NoErr]
       ELSE [val |-> i,
             err |-> <<"block validation failed at">>
                     \o Validate(BlockAt(c, i + 1), <<BlockAt(c, i)>>)]

RECURSIVE SumValues(_, _)
SumValues(outs, i) ==
    IF i > Len(outs) THEN 0 ELSE outs[i].Value + SumValues(outs, i + 1)

GetBalance(c, address) ==
    IF address \in DOMAIN c.utxoSet THEN SumValues(c.utxoSet[address], 1) ELSE 0

\* Blockchain.FindUTXO: a fresh slice holding the bucket's entries.
FindUTXO(c, address) ==
    IF address \in DOMAIN c.utxoSet THEN c.utxoSet[address] ELSE <<>>

\* GetAllBlocks returning bc.blocks itself.
GetAllBlocksShared(c) == [elems |-> c.blocks, shared |-> TRUE]

\* Blockchain.GetAllBlocks: the returned slice, and whether it shares the
\* backing array of bc.blocks (it does not: make + copy).
GetAllBlocks(c) == [elems |-> c.blocks, shared |-> FALSE]

\* The positions <<block, transaction>> of the transactions with this ID.
TxPositions(c, txID) ==
    {p \in UNION {{<<i, j>> : j \in 1..Len(BlockAt(c, i).Transactions)} :
                     i \in 1..Len(c.blocks)} :
        BlockAt(c, p[1]).Transactions[p[2]].ID = txID}

\* Blockchain.GetTransactionByID: a copy of the Transaction struct of the
\* first match, whose Inputs and Outputs slices are those of the chain's
\* transaction (addr, idx say which).
GetTransactionByID(c, txID) ==
    LET found == TxPositions(c, txID)
    IN IF found = {}
       THEN [val |-> <<>>, err |-> <<"transaction not found">>]
       ELSE LET p == CHOOSE q \in found :
                       \A r \in found : q[1] < r[1] \/ (q[1] = r[1] /\ q[2] <= r[2])
                tx == BlockAt(c, p[1]).Transactions[p[2]]
            IN [val |-> <<[addr |-> c.blocks[p[1]], idx |-> p[2], ID |-> tx.ID,
                           Timestamp |-> tx.Timestamp, Signature |-> tx.Signature]>>,
                err |-> NoErr]

\* ------------------------------------------------------------- sync.RWMutex
\* A mutex value: w is the goroutine that holds the writer side or has
\* announced itself and waits for the readers to leave (0: none); holding
\* tells which; readers counts each goroutine's read locks.
Threads == {1, 2}
NoThread == 0
FreeMutex == [w |-> NoThread, holding |-> FALSE, readers |-> [t \in Threads |-> 0]]

\* A gate that lets every writer through.
CanAnnounceAlways(m) == TRUE

\* Lock() passes the writers' gate when no other writer holds or waits.
CanAnnounce(m) == m.w = NoThread

\* ... and returns once the readers have left.
CanLock(m) == \A r \in Threads : m.readers[r] = 0

\* RLock() returns when no writer holds the lock or waits for it.
CanRLock(m) == m.w = NoThread

\* ---------------------------------------------------------------- state
VARIABLES
    heap,        \* the Block objects the chain points to, by address
    blocks,      \* bc.blocks
    difficulty,  \* bc.difficulty
    utxoSet,     \* bc.utxoSet
    now,         \* time.Now().Unix()
    ret,         \* the last call: [op, arg, err, val]
    slices,      \* the slices two GetAllBlocks callers hold
    writes,      \* how many writes clients made through returned values
    lastWrite,   \* the last such write
    mutex,       \* bc.mutex
    pc,          \* where each goroutine is in its call
    loc,         \* each goroutine's locals
    wallet,      \* the node's Wallet, and where the goroutine using it is
    store        \* a MemoryStorage: its three maps of blocks and transactions

\* The wallet and the storage belong to both groups: the operations on the
\* chain, of one caller or of concurrent ones, leave them alone.
seqVars == <<ret, slices, writes, lastWrite, wallet, store>>
concVars == <<mutex, pc, loc, wallet, store>>
seqVarsButWallet == <<ret, slices, writes, lastWrite, store>>
chainVars == <<heap, blocks, difficulty, utxoSet>>
vars == <<heap, blocks, difficulty, utxoSet, now, ret, slices, writes, lastWrite,
          mutex, pc, loc, wallet, store>>

\* The Blockchain value of the current state.
bc == [heap |-> heap, blocks |-> blocks, difficulty |-> difficulty,
       utxoSet |-> utxoSet]

SetChain(c) ==
    /\ heap' = c.heap
    /\ blocks' = c.blocks
    /\ difficulty' = c.difficulty
    /\ utxoSet' = c.utxoSet

Returned(op, arg, err, val) == ret' = [op |-> op, arg |-> arg, err |-> err, val |-> val]

\* NewMemoryStorage(): the maps hash -> block, height -> block and
\* txID -> transaction, all empty.
NewMemoryStorage == [blocks |-> EmptyMap, blocksByHeight |-> EmptyMap,
                     transactions |-> EmptyMap]

NoSlice == [full |-> FALSE, gen |-> 0, orig |-> <<>>, cur |-> <<>>, shared |-> FALSE,
            written |-> FALSE]
NoWrite == [kind |-> "none", addr |-> NilPtr, field |-> "", changed |-> FALSE]
NoLocals == [txs |-> <<>>, lastBlock |-> <<>>, newBlock |-> <<>>, err |-> NoErr,
             calls |-> 0, appended |-> 0, contended |-> FALSE, seen |-> <<>>,
             args |-> <<>>, handler |-> "",
             sHeight |-> <<>>, sDifficulty |-> <<>>, sBlocks |-> <<>>]

\* The locals of the goroutine that calls the wallet's methods: the method
\* it called (op), its arguments, the transaction the method works on, the
\* signature and the index of the loop over the inputs.
NoWalletLocals == [op |-> "", to |-> "", amount |-> 0, tx |-> <<>>, err |-> NoErr,
                   signature |-> EmptyString, i |-> 0]

\* NewWallet: a key pair, its address, balance 0, a free mutex.  The
\* address is the one the node mines to.
WalletThread == CHOOSE t \in Threads : \A u \in Threads : t <= u
WalletAddress == "miner1"
NewWallet == [Address |-> WalletAddress, Balance |-> 0, mutex |-> FreeMutex,
              pc |-> "idle", loc |-> NoWalletLocals]

Init ==
    /\ now = 0
    /\ heap = NewBlockchain(0).heap
    /\ blocks = NewBlockchain(0).blocks
    /\ difficulty = NewBlockchain(0).difficulty
    /\ utxoSet = NewBlockchain(0).utxoSet
    /\ ret = [op |-> "NewBlockchain", arg |-> <<>>, err |-> NoErr, val |-> <<>>]
    /\ slices = [k \in 1..2 |-> NoSlice]
    /\ writes = 0
    /\ lastWrite = NoWrite
    /\ mutex = FreeMutex
    /\ pc = [t \in Threads |-> "idle"]
    /\ loc = [t \in Threads |-> NoLocals]
    /\ wallet = NewWallet
    /\ store = NewMemoryStorage

\* ------------------------------------------------- the callers' arguments
BlockReward == 50

\* A spend as CreateTransaction builds it: one input naming the spender, the
\* amount to the recipient and the change, if any, back to the spender.
Spend(from, to, amount, change, t) ==
    NewTransaction(<<TxInput(EmptyString, 0, from, EmptyString)>>,
                   <<TxOutput(amount, to)>>
                   \o (IF change > 0 THEN <<TxOutput(change, from)>> ELSE <<>>),
                   t)

\* Transaction lists that pass validation.
ValidLists(t) ==
    {<<NewCoinbaseTransaction("miner1", BlockReward, t)>>,
     <<NewCoinbaseTransaction("alice", BlockReward, t)>>,
     <<NewCoinbaseTransaction("miner1", BlockReward, t),
       Spend("genesis", "alice", 20, 30, t)>>,
     <<NewCoinbaseTransaction("miner1", BlockReward, t),
       Spend("alice", "miner1", 20, 0, t)>>}

\* Transaction lists that fail it: empty, no coinbase first, two coinbases, a
\* stale ID, a spend with a zero output.
InvalidLists(t) ==
    {<<>>,
     <<Spend("genesis", "alice", 20, 30, t)>>,
     <<NewCoinbaseTransaction("miner1", BlockReward, t),
       NewCoinbaseTransaction("alice", BlockReward, t)>>,
     <<[NewCoinbaseTransaction("miner1", BlockReward, t) EXCEPT !.ID = EmptyString]>>,
     <<NewCoinbaseTransaction("miner1", BlockReward, t),
       Spend("genesis", "alice", 0, 0, t)>>}

TxLists(t) == ValidLists(t) \cup InvalidLists(t)

\* The lists of the specifications that explore fewer chains.
FewLists(t) ==
    {<<NewCoinbaseTransaction("miner1", BlockReward, t)>>,
     <<NewCoinbaseTransaction("miner1", BlockReward, t),
       Spend("genesis", "alice", 20, 30, t)>>}

\* ------------------------------------------------- operations, one call each
Tick ==
    /\ now < MaxTime
    /\ now' = now + 1
    /\ UNCHANGED <<chainVars, seqVars, concVars>>

AddBlockFrom(lists) ==
    /\ Len(blocks) < MaxBlocks
    /\ \E txs \in lists :
          /\ CanMine(Tip(bc), difficulty, txs, now)
          /\ SetChain(AddBlock(bc, txs, now).bc)
          /\ Returned("AddBlock", txs, AddBlock(bc, txs, now).err, <<>>)
    /\ UNCHANGED <<now, slices, writes, lastWrite, concVars>>

DoAddBlock == AddBlockFrom(TxLists(now))

Read(op, arg, err, val) ==
    /\ Returned(op, arg, err, val)
    /\ UNCHANGED <<chainVars, now, slices, writes, lastWrite, concVars>>

DoGetHeight == Read("GetHeight", <<>>, NoErr, <<GetHeight(bc)>>)

DoGetDifficulty == Read("GetDifficulty", <<>>, NoErr, <<GetDifficulty(bc)>>)

DoGetBalance ==
    \E a \in Addresses : Read("GetBalance", <<a>>, NoErr, <<GetBalance(bc, a)>>)

DoValidateChain ==
    Read("ValidateChain", <<>>, ValidateChain(bc).err, <<ValidateChain(bc).val>>)

Next ==
    \/ Tick
    \/ DoAddBlock
    \/ DoGetHeight
    \/ DoGetDifficulty
    \/ DoGetBalance
    \/ DoValidateChain

Spec == Init /\ [][Next]_vars

\* ------------------------- accessors that return pointers, and their callers
\* The chain these callers read grows by blocks of a coinbase and a spend.
AliasLists(t) ==
    {<<NewCoinbaseTransaction("miner1", BlockReward, t),
       Spend("genesis", "alice", 20, 30, t)>>}

AliasAddBlock == AddBlockFrom(AliasLists(now))

DoGetLatestBlock == Read("GetLatestBlock", <<>>, NoErr, <<GetLatestBlock(bc)>>)

DoGetBlock ==
    \E h \in {-1, 0, Len(blocks) - 1, Len(blocks)} :
        Read("GetBlock", <<h>>, GetBlock(bc, h).err, <<GetBlock(bc, h).val>>)

\* Hashes a caller asks for: one of the chain's, or one that is not there.
SomeHashes == {heap[a].Header.Hash : a \in 1..Len(heap)} \cup {EmptyString}

DoGetBlockByHash ==
    \E h \in SomeHashes :
        Read("GetBlockByHash", h, GetBlockByHash(bc, h).err,
             <<GetBlockByHash(bc, h).val>>)

DoFindUTXO ==
    \E a \in Addresses : Read("FindUTXO", <<a>>, NoErr, FindUTXO(bc, a))

\* Transaction IDs a caller asks for.
SomeTxIDs ==
    {heap[a].Transactions[Len(heap[a].Transactions)].ID :
        a \in {x \in 1..Len(heap) : Len(heap[x].Transactions) > 0}}
    \cup {EmptyString}

DoGetTransactionByID ==
    \E id \in SomeTxIDs :
        Read("GetTransactionByID", id, GetTransactionByID(bc, id).err,
             GetTransactionByID(bc, id).val)

\* The *Block the last call returned, NilPtr when it returned none.
HeldBlock ==
    IF ret.op \in {"GetLatestBlock", "GetBlock", "GetBlockByHash"} /\ ~IsErr(ret.err)
    THEN ret.val[1] ELSE NilPtr

\* The *Transaction the last call returned, <<>> when it returned none.
HeldTx ==
    IF ret.op = "GetTransactionByID" /\ ~IsErr(ret.err) THEN ret.val ELSE <<>>

ClientWrote(kind, addr, field, changed) ==
    /\ writes < MaxWrites
    /\ writes' = writes + 1
    /\ lastWrite' = [kind |-> kind, addr |-> addr, field |-> field, changed |-> changed]

\* block.Header.<field> = <string>, through a returned *Block.
WriteHeaderString ==
    /\ HeldBlock # NilPtr
    /\ \E f \in {"PreviousHash", "Hash", "MerkleRoot"} :
       \E v \in {heap[HeldBlock].Header[f] \o <<1>>, EmptyString} :
          /\ heap' = [heap EXCEPT ![HeldBlock].Header[f] = v]
          /\ ClientWrote("header", HeldBlock, f, v # heap[HeldBlock].Header[f])
    /\ UNCHANGED <<blocks, difficulty, utxoSet, now, ret, slices, concVars>>

\* block.Header.<field> = <number>, through a returned *Block.
WriteHeaderNumber ==
    /\ HeldBlock # NilPtr
    /\ \E f \in {"Height", "Nonce"} :
       \E v \in {heap[HeldBlock].Header[f] + 1} :
          /\ heap' = [heap EXCEPT ![HeldBlock].Header[f] = v]
          /\ ClientWrote("header", HeldBlock, f, v # heap[HeldBlock].Header[f])
    /\ UNCHANGED <<blocks, difficulty, utxoSet, now, ret, slices, concVars>>

\* block.Transactions = nil, through a returned *Block.
WriteBlockTransactions ==
    /\ HeldBlock # NilPtr
    /\ heap' = [heap EXCEPT ![HeldBlock].Transactions = <<>>]
    /\ ClientWrote("transactions", HeldBlock, "Transactions",
                   heap[HeldBlock].Transactions # <<>>)
    /\ UNCHANGED <<blocks, difficulty, utxoSet, now, ret, slices, concVars>>

\* tx.Outputs[0].Value++, through a returned *Transaction: the Outputs slice
\* of the copy has the backing array of the chain's transaction.
WriteTxOutput ==
    /\ HeldTx # <<>>
    /\ Len(heap[HeldTx[1].addr].Transactions) >= HeldTx[1].idx
    /\ Len(heap[HeldTx[1].addr].Transactions[HeldTx[1].idx].Outputs) > 0
    /\ heap' = [heap EXCEPT
                  ![HeldTx[1].addr].Transactions[HeldTx[1].idx].Outputs[1].Value = @ + 1]
    /\ ClientWrote("txoutput", HeldTx[1].addr, "Outputs", TRUE)
    /\ UNCHANGED <<blocks, difficulty, utxoSet, now, ret, slices, concVars>>

\* tx.ID = "", through a returned *Transaction: a field of the copy.
WriteTxID ==
    /\ HeldTx # <<>>
    /\ ret' = [ret EXCEPT !.val[1].ID = EmptyString]
    /\ ClientWrote("txid", HeldTx[1].addr, "ID", TRUE)
    /\ UNCHANGED <<chainVars, now, slices, concVars>>

\* outputs[0].Value = 0, in the slice FindUTXO returned.
WriteFoundOutput ==
    /\ ret.op = "FindUTXO" /\ Len(ret.val) > 0
    /\ ret' = [ret EXCEPT !.val[1].Value = 0]
    /\ ClientWrote("utxo", NilPtr, "Value", TRUE)
    /\ UNCHANGED <<chainVars, now, slices, concVars>>

ClientWrite ==
    \/ WriteHeaderString
    \/ WriteHeaderNumber
    \/ WriteBlockTransactions
    \/ WriteTxOutput
    \/ WriteTxID
    \/ WriteFoundOutput

NextAlias ==
    \/ AliasAddBlock
    \/ DoGetLatestBlock
    \/ DoGetBlock
    \/ DoGetBlockByHash
    \/ DoFindUTXO
    \/ DoGetTransactionByID
    \/ ClientWrite

SpecAlias == Init /\ [][NextAlias]_vars
\* ------------------------------------------- the callers of GetAllBlocks
\* What a caller reads in the slice it holds: its own array, or bc.blocks
\* itself were the slice to share the chain's backing array.
SliceElems(sl) ==
    IF sl.shared THEN SubSeq(blocks, 1, Len(sl.orig)) ELSE sl.cur

SlicesAddBlock == AddBlockFrom({<<NewCoinbaseTransaction("miner1", BlockReward, now)>>})

\* Caller k calls GetAllBlocks.
DoGetAllBlocks ==
    /\ \E k \in 1..2 :
          slices' = [slices EXCEPT ![k] =
                        [full |-> TRUE, gen |-> Len(blocks),
                         orig |-> GetAllBlocks(bc).elems,
                         cur |-> GetAllBlocks(bc).elems,
                         shared |-> GetAllBlocks(bc).shared,
                         written |-> FALSE]]
    /\ Returned("GetAllBlocks", <<>>, NoErr, <<>>)
    /\ UNCHANGED <<chainVars, now, writes, lastWrite, concVars>>

\* result[i] = q: caller k replaces an entry of its slice by another *Block.
WriteSliceEntry ==
    /\ \E k \in 1..2 : \E i \in 1..Len(slices[k].orig) : \E q \in 1..Len(heap) :
          /\ slices[k].full
          /\ q # SliceElems(slices[k])[i]
          /\ slices' = [slices EXCEPT ![k].cur[i] = q, ![k].written = TRUE]
          /\ blocks' = IF slices[k].shared THEN [blocks EXCEPT ![i] = q] ELSE blocks
          /\ ClientWrote("slice", k, "entry", TRUE)
    /\ UNCHANGED <<heap, difficulty, utxoSet, now, ret, concVars>>

NextSlices ==
    \/ SlicesAddBlock
    \/ DoGetAllBlocks
    \/ WriteSliceEntry

SpecSlices == Init /\ [][NextSlices]_vars

\* ------------------------------------------------ concurrent goroutines
ConcLists(t) == FewLists(t) \cup {<<>>}

\* How many goroutines are inside AddBlock.
InAddBlock == Cardinality({t \in Threads : pc[t] \in
                  {"ab.lock", "ab.wait", "ab.mine", "ab.validate", "ab.append",
                   "ab.finish", "ab.unlock"}})

\* A goroutine calls AddBlock(txs).
CallAddBlock(t) ==
    /\ pc[t] = "idle"
    /\ loc[t].calls < MaxCalls
    /\ Len(blocks) + InAddBlock < MaxBlocks
    /\ \E txs \in ConcLists(now) :
          loc' = [loc EXCEPT ![t].txs = txs, ![t].err = NoErr,
                             ![t].contended = @ \/ mutex.w # NoThread]
    /\ pc' = [pc EXCEPT ![t] = "ab.lock"]
    /\ UNCHANGED <<chainVars, now, seqVars, mutex>>

\* bc.mutex.Lock(): through the writers' gate ...
ABAnnounce(t) ==
    /\ pc[t] = "ab.lock"
    /\ CanAnnounce(mutex)
    /\ mutex' = [mutex EXCEPT !.w = t]
    /\ pc' = [pc EXCEPT ![t] = "ab.wait"]
    /\ UNCHANGED <<chainVars, now, seqVars, loc>>

\* ... and on once the readers have left.
ABLock(t) ==
    /\ pc[t] = "ab.wait"
    /\ CanLock(mutex)
    /\ mutex' = [mutex EXCEPT !.holding = TRUE]
    /\ pc' = [pc EXCEPT ![t] = "ab.mine"]
    /\ UNCHANGED <<chainVars, now, seqVars, loc>>

\* lastBlock := bc.blocks[len(bc.blocks)-1]; NewBlock; Mine.
ABMine(t) ==
    /\ pc[t] = "ab.mine"
    /\ CanMine(Tip(bc), difficulty, loc[t].txs, now)
    /\ loc' = [loc EXCEPT ![t].lastBlock = <<Tip(bc)>>,
                          ![t].newBlock =
                              <<Candidate(Tip(bc), difficulty, loc[t].txs, now)>>]
    /\ pc' = [pc EXCEPT ![t] = "ab.validate"]
    /\ UNCHANGED <<chainVars, now, seqVars, mutex>>

\* newBlock.Validate(lastBlock) and bc.validateTransactions(newBlock).
ABValidate(t) ==
    /\ pc[t] = "ab.validate"
    /\ LET err == AddBlockErr(bc, loc[t].lastBlock[1], loc[t].newBlock[1])
       IN /\ loc' = [loc EXCEPT ![t].err = err]
          /\ pc' = [pc EXCEPT ![t] = IF IsErr(err) THEN "ab.unlock" ELSE "ab.append"]
    /\ UNCHANGED <<chainVars, now, seqVars, mutex>>

\* bc.blocks = append(bc.blocks, newBlock).
ABAppend(t) ==
    /\ pc[t] = "ab.append"
    /\ SetChain(AppendBlock(bc, loc[t].newBlock[1]))
    /\ pc' = [pc EXCEPT ![t] = "ab.finish"]
    /\ loc' = [loc EXCEPT ![t].appended = @ + 1]
    /\ UNCHANGED <<now, seqVars, mutex>>

\* bc.updateUTXOSet(newBlock) and, every AdjustInterval blocks, adjustDifficulty.
ABFinish(t) ==
    /\ pc[t] = "ab.finish"
    /\ LET updated == [bc EXCEPT !.utxoSet = updateUTXOSet(@, loc[t].newBlock[1])]
       IN SetChain(IF loc[t].newBlock[1].Header.Height % AdjustInterval = 0
                   THEN adjustDifficulty(updated) ELSE updated)
    /\ pc' = [pc EXCEPT ![t] = "ab.unlock"]
    /\ UNCHANGED <<now, seqVars, mutex, loc>>

\* The deferred bc.mutex.Unlock(), and the return.
ABUnlock(t) ==
    /\ pc[t] = "ab.unlock"
    /\ mutex' = [mutex EXCEPT !.w = NoThread, !.holding = FALSE]
    /\ pc' = [pc EXCEPT ![t] = "idle"]
    /\ loc' = [loc EXCEPT ![t].calls = @ + 1, ![t].txs = <<>>,
                          ![t].lastBlock = <<>>, ![t].newBlock = <<>>]
    /\ UNCHANGED <<chainVars, now, seqVars>>

\* A goroutine calls GetHeight: RLock, the read, the deferred RUnlock.
CallGetHeight(t) ==
    /\ pc[t] = "idle"
    /\ loc[t].calls < MaxCalls
    /\ pc' = [pc EXCEPT ![t] = "gh.rlock"]
    /\ UNCHANGED <<chainVars, now, seqVars, mutex, loc>>

GHRLock(t) ==
    /\ pc[t] = "gh.rlock"
    /\ CanRLock(mutex)
    /\ mutex' = [mutex EXCEPT !.readers[t] = @ + 1]
    /\ pc' = [pc EXCEPT ![t] = "gh.read"]
    /\ UNCHANGED <<chainVars, now, seqVars, loc>>

GHRead(t) ==
    /\ pc[t] = "gh.read"
    /\ loc' = [loc EXCEPT ![t].seen = <<GetHeight(bc)>>]
    /\ pc' = [pc EXCEPT ![t] = "gh.runlock"]
    /\ UNCHANGED <<chainVars, now, seqVars, mutex>>

GHRUnlock(t) ==
    /\ pc[t] = "gh.runlock"
    /\ mutex' = [mutex EXCEPT !.readers[t] = @ - 1]
    /\ pc' = [pc EXCEPT ![t] = "idle"]
    /\ loc' = [loc EXCEPT ![t].calls = @ + 1]
    /\ UNCHANGED <<chainVars, now, seqVars>>

NextConc ==
    \E t \in Threads :
        \/ CallAddBlock(t)
        \/ ABAnnounce(t)
        \/ ABLock(t)
        \/ ABMine(t)
        \/ ABValidate(t)
        \/ ABAppend(t)
        \/ ABFinish(t)
        \/ ABUnlock(t)
        \/ CallGetHeight(t)
        \/ GHRLock(t)
        \/ GHRead(t)
        \/ GHRUnlock(t)

SpecConc == Init /\ [][NextConc]_vars

\* ---------------------------------- a writer goroutine and a caller of String
\* One goroutine calls AddBlock with one coinbase, call after call, as fast
\* as it can; another goroutine calls bc.String().
Roles == [miner |-> 1, caller |-> 2]
MinerLists(t) == {<<NewCoinbaseTransaction("miner1", BlockReward, t)>>}

WriterCallAddBlock(t) ==
    /\ t = Roles.miner
    /\ pc[t] = "idle"
    /\ Len(blocks) < MaxRaceBlocks
    /\ \E txs \in MinerLists(now) :
          loc' = [loc EXCEPT ![t].txs = txs, ![t].err = NoErr]
    /\ pc' = [pc EXCEPT ![t] = "ab.lock"]
    /\ UNCHANGED <<chainVars, now, seqVars, mutex>>

\* String(): fmt.Sprintf(..., bc.GetHeight(), bc.difficulty, len(bc.blocks)).
\* The three operands are read one after another in an order the language
\* leaves open between the call and the two field reads; only GetHeight
\* takes the read lock.
CallString(t) ==
    /\ t = Roles.caller
    /\ pc[t] = "idle"
    /\ loc' = [loc EXCEPT ![t].sHeight = <<>>, ![t].sDifficulty = <<>>,
                          ![t].sBlocks = <<>>]
    /\ pc' = [pc EXCEPT ![t] = "st"]
    /\ UNCHANGED <<chainVars, now, seqVars, mutex>>

\* bc.GetHeight() inside String: RLock ...
STRLock(t) ==
    /\ pc[t] = "st"
    /\ loc[t].sHeight = <<>>
    /\ CanRLock(mutex)
    /\ mutex' = [mutex EXCEPT !.readers[t] = @ + 1]
    /\ pc' = [pc EXCEPT ![t] = "st.height"]
    /\ UNCHANGED <<chainVars, now, seqVars, loc>>

\* ... the read ...
STHeight(t) ==
    /\ pc[t] = "st.height"
    /\ loc' = [loc EXCEPT ![t].sHeight = <<GetHeight(bc)>>]
    /\ pc' = [pc EXCEPT ![t] = "st.runlock"]
    /\ UNCHANGED <<chainVars, now, seqVars, mutex>>

\* ... and the deferred RUnlock.
STRUnlock(t) ==
    /\ pc[t] = "st.runlock"
    /\ mutex' = [mutex EXCEPT !.readers[t] = @ - 1]
    /\ pc' = [pc EXCEPT ![t] = "st"]
    /\ UNCHANGED <<chainVars, now, seqVars, loc>>

\* bc.difficulty, read without the mutex.
STDifficulty(t) ==
    /\ pc[t] = "st"
    /\ loc[t].sDifficulty = <<>>
    /\ loc' = [loc EXCEPT ![t].sDifficulty = <<difficulty>>]
    /\ UNCHANGED <<chainVars, now, seqVars, mutex, pc>>

\* len(bc.blocks), read without the mutex.
STBlocks(t) ==
    /\ pc[t] = "st"
    /\ loc[t].sBlocks = <<>>
    /\ loc' = [loc EXCEPT ![t].sBlocks = <<Len(blocks)>>]
    /\ UNCHANGED <<chainVars, now, seqVars, mutex, pc>>

\* The string is formatted and returned.
STReturn(t) ==
    /\ pc[t] = "st"
    /\ loc[t].sHeight # <<>> /\ loc[t].sDifficulty # <<>> /\ loc[t].sBlocks # <<>>
    /\ pc' = [pc EXCEPT ![t] = "idle"]
    /\ UNCHANGED <<chainVars, now, seqVars, mutex, loc>>

NextRace ==
    \E t \in Threads :
        \/ WriterCallAddBlock(t)
        \/ ABAnnounce(t)
        \/ ABLock(t)
        \/ ABMine(t)
        \/ ABValidate(t)
        \/ ABAppend(t)
        \/ ABFinish(t)
        \/ ABUnlock(t)
        \/ CallString(t)
        \/ STRLock(t)
        \/ STHeight(t)
        \/ STRUnlock(t)
        \/ STDifficulty(t)
        \/ STBlocks(t)
        \/ STReturn(t)

SpecRace == Init /\ [][NextRace]_vars
\* ------------------------------------------- long chains and slow clocks
\* Seconds the clock jumps between two blocks: around the two thresholds of
\* adjustDifficulty.
Deltas == {FastSeconds - 1, FastSeconds, SlowSeconds, SlowSeconds + 1}

\* The clock moves once, before a block whose height is a multiple of
\* AdjustInterval is built; all other blocks follow their predecessor within
\* the same second.
LongTick ==
    /\ Len(blocks) < MaxLongBlocks
    /\ Len(blocks) % AdjustInterval = 0
    /\ now = Tip(bc).Header.Timestamp
    /\ \E d \in Deltas : now' = now + d
    /\ UNCHANGED <<chainVars, seqVars, concVars>>

\* AddBlock with the miner's coinbase, or with no transaction at all.
LongAddBlock ==
    /\ Len(blocks) < MaxLongBlocks
    /\ \E txs \in MinerLists(now) \cup {<<>>} :
          /\ CanMine(Tip(bc), difficulty, txs, now)
          /\ SetChain(AddBlock(bc, txs, now).bc)
          /\ Returned("AddBlock", txs, AddBlock(bc, txs, now).err, <<>>)
    /\ UNCHANGED <<now, slices, writes, lastWrite, concVars>>

NextLong ==
    \/ LongTick
    \/ LongAddBlock
    \/ DoGetDifficulty

SpecLong == Init /\ [][NextLong]_vars

\* ------------------------------------------- a block built, mined, validated
\* NewBlock on the tip of the chain, from a list that passes validation.
DoNewBlock ==
    \E txs \in ValidLists(now) :
        Read("NewBlock", txs, NoErr,
             <<NewBlock(txs, Tip(bc).Header.Hash, Tip(bc).Header.Height + 1, now)>>)

\* block.Mine(d) on the block NewBlock returned.
DoMine ==
    /\ ret.op = "NewBlock"
    /\ \E d \in 0..MaxMineDifficulty :
          /\ MineTerminates(ret.val[1], d)
          /\ Read("Mine", <<d>>, NoErr, <<Mine(ret.val[1], d)>>)

\* block.Validate(tip) on the mined block.
DoValidate ==
    /\ ret.op = "Mine"
    /\ Read("Validate", ret.arg, Validate(ret.val[1], <<Tip(bc)>>), ret.val)

NextMine ==
    \/ Tick
    \/ AddBlockFrom(FewLists(now))
    \/ DoNewBlock
    \/ DoMine
    \/ DoValidate

SpecMine == Init /\ [][NextMine]_vars

\* ------------------------------------------------ transactions, validated
\* Output values a caller passes: negative, zero, positive.
SomeValues == {-1, 0, 1, BlockReward}

\* Output lists of up to two outputs, input lists of up to two inputs.
SomeOutputs ==
    {<<>>}
    \cup {<<TxOutput(v, "alice")>> : v \in SomeValues}
    \cup {<<TxOutput(v, "alice"), TxOutput(w, "miner1")>> : v \in SomeValues, w \in SomeValues}

SomeInputs ==
    {<<>>,
     <<TxInput(EmptyString, 0, "genesis", EmptyString)>>,
     <<TxInput(EmptyString, 0, "genesis", EmptyString),
       TxInput(EmptyString, 0, "genesis", EmptyString)>>}

\* The transactions NewTransaction builds from them at clock value t, and
\* the same with the ID wiped afterwards.
SomeTransactions(t) ==
    LET built == {NewTransaction(ins, outs, t) : ins \in SomeInputs, outs \in SomeOutputs}
    IN built \cup {[tx EXCEPT !.ID = EmptyString] : tx \in built}

\* tx.Validate().
DoTxValidate ==
    \E tx \in SomeTransactions(now) :
        Read("Transaction.Validate", <<tx>>, TxValidate(tx), <<>>)

NextTx ==
    \/ Tick
    \/ DoTxValidate

SpecTx == Init /\ [][NextTx]_vars

\* ------------------------------------------------------------- payments
\* The loop of CreateTransaction over utxos from position i on: it stops
\* at the first position where totalInput has reached amount, and otherwise
\* appends one input naming from and adds the output's value.
RECURSIVE SelectInputs(_, _, _, _, _)
SelectInputs(utxos, from, amount, i, sel) ==
    IF i > Len(utxos) \/ sel.totalInput >= amount
    THEN sel
    ELSE SelectInputs(utxos, from, amount, i + 1,
             [inputs |-> Append(sel.inputs, TxInput(EmptyString, 0, from, EmptyString)),
              totalInput |-> sel.totalInput + utxos[i].Value])

\* CreateTransaction that never returns the change to the sender.
CreateTransactionNoChange(c, from, to, amount, t) ==
    LET sel == SelectInputs(FindUTXO(c, from), from, amount, 1,
                            [inputs |-> <<>>, totalInput |-> 0])
    IN IF sel.totalInput < amount
       THEN [val |-> <<>>, err |-> <<"insufficient funds">>]
       ELSE [val |-> <<NewTransactionOf(IF sel.inputs = <<>> THEN {"Inputs"} ELSE {},
                                        sel.inputs, <<TxOutput(amount, to)>>, t)>>,
             err |-> NoErr]

\* Blockchain.CreateTransaction(from, to, amount) at clock value t: the
\* transaction (val holds it) or the error.
CreateTransaction(c, from, to, amount, t) ==
    LET sel == SelectInputs(FindUTXO(c, from), from, amount, 1,
                            [inputs |-> <<>>, totalInput |-> 0])
        outputs == <<TxOutput(amount, to)>>
                   \o (IF sel.totalInput > amount
                       THEN <<TxOutput(sel.totalInput - amount, from)>>
                       ELSE <<>>)
    IN IF sel.totalInput < amount
       THEN [val |-> <<>>, err |-> <<"insufficient funds">>]
       ELSE [val |-> <<NewTransactionOf(IF sel.inputs = <<>> THEN {"Inputs"} ELSE {},
                                        sel.inputs, outputs, t)>>,
             err |-> NoErr]

\* Rewards of the coinbase transactions callers hand to AddBlock, and the
\* amounts and recipients they ask CreateTransaction for.
PayValues == {-30, 20}
PayAmounts == {-1, 0, 40, 60, 80}
Recipients == {"alice", "genesis"}

\* One coinbase transaction per list, to the genesis address or to alice.
PayLists(t) ==
    {<<NewCoinbaseTransaction("genesis", v, t)>> : v \in PayValues}
    \cup {<<NewCoinbaseTransaction("alice", -30, t)>>}

\* bc.AddBlock(txs) with a list of PayLists.
PayAddBlock == AddBlockFrom(PayLists(now))

\* bc.CreateTransaction(from, to, amount).
DoCreateTransaction ==
    \E from \in Addresses, to \in Recipients, amount \in PayAmounts :
        LET r == CreateTransaction(bc, from, to, amount, now)
        IN Read("CreateTransaction", <<from, to, amount>>, r.err, r.val)

NextPay ==
    \/ Tick
    \/ PayAddBlock
    \/ DoCreateTransaction

SpecPay == Init /\ [][NextPay]_vars

\* --------------------------------------------- every operation, one caller
\* The lists handed to AddBlock here: two that pass validation and one, of
\* two coinbase transactions, that fails it.
FrameLists(t) ==
    FewLists(t)
    \cup {<<NewCoinbaseTransaction("miner1", BlockReward, t),
            NewCoinbaseTransaction("alice", BlockReward, t)>>}

FrameAddBlock == AddBlockFrom(FrameLists(now))

\* bc.GetAllBlocks() by a caller that only reads the slice it gets.
FrameGetAllBlocks == Read("GetAllBlocks", <<>>, NoErr, GetAllBlocks(bc).elems)

NextFrame ==
    \/ Tick
    \/ FrameAddBlock
    \/ DoCreateTransaction
    \/ DoGetBalance
    \/ DoFindUTXO
    \/ DoGetBlock
    \/ DoGetBlockByHash
    \/ DoGetLatestBlock
    \/ DoGetHeight
    \/ DoGetDifficulty
    \/ FrameGetAllBlocks
    \/ DoGetTransactionByID
    \/ DoValidateChain

SpecFrame == Init /\ [][NextFrame]_vars

\* ------------------------------------------- blocks whose inputs name anything
\* What the inputs of submitted transactions carry: the input
\* CreateTransaction builds, and inputs with a transaction ID that no
\* transaction has, an output index that exists nowhere, a spender without
\* indexed outputs.
SomeInputRefs ==
    {TxInput(EmptyString, 0, "genesis", EmptyString),
     TxInput(EmptyString, 5, "alice", EmptyString),
     TxInput(<<0, 0>>, 0, "miner1", EmptyString),
     TxInput(<<0, 0>>, 5, "alice", EmptyString)}

\* A coinbase and one transaction with a single input, paying 20 to genesis;
\* and a list Block.Validate rejects, of two coinbase transactions.
InputLists(t) ==
    {<<NewCoinbaseTransaction("miner1", BlockReward, t),
       NewTransaction(<<in>>, <<TxOutput(20, "genesis")>>, t)>> : in \in SomeInputRefs}
    \cup {<<NewCoinbaseTransaction("miner1", BlockReward, t),
            NewCoinbaseTransaction("alice", BlockReward, t)>>}

InputsAddBlock == AddBlockFrom(InputLists(now))

NextInputs ==
    \/ Tick
    \/ InputsAddBlock
    \/ DoGetBalance

SpecInputs == Init /\ [][NextInputs]_vars

\* ------------------------------------------------------------ merkle roots
\* The longest transaction list whose root is computed.
MaxLeaves == 3

\* IDs the transactions of a list carry: two that calculateID computed, and
\* strings a caller wrote into the exported ID field.
SomeLeafIDs ==
    {NewCoinbaseTransaction("miner1", BlockReward, 0).ID,
     Spend("genesis", "alice", 20, 30, 0).ID,
     EmptyString, <<1>>, <<1, 1>>}

\* The transactions carrying the IDs of ids, in that order.
WithIDs(ids) ==
    [i \in 1..Len(ids) |->
        [NewCoinbaseTransaction("miner1", BlockReward, 0) EXCEPT !.ID = ids[i]]]

RECURSIVE LeafLists(_)
LeafLists(n) ==
    IF n = 0 THEN {<<>>}
    ELSE LeafLists(n - 1)
         \cup {Append(l, id) : l \in {m \in LeafLists(n - 1) : Len(m) = n - 1},
                               id \in SomeLeafIDs}

\* NewBlock(transactions, ...).Header.MerkleRoot for a list of such
\* transactions.
DoMerkleRoot ==
    \E ids \in LeafLists(MaxLeaves) :
        Read("calculateMerkleRoot", ids, NoErr, calculateMerkleRoot(WithIDs(ids)))

NextMerkle ==
    \/ Tick
    \/ DoMerkleRoot

SpecMerkle == Init /\ [][NextMerkle]_vars

\* ------------------------------------------------------ the JSON encoding
\* Transaction.Serialize: json.Marshal of the transaction.
SerializeTransaction(tx) == JsonTransaction(tx)

\* json.Marshal of a BlockHeader, and Block.Serialize.
JsonHeader(h) ==
    <<LB>> \o FmtInt(h.Version) \o <<SEP>> \o Quoted(h.PreviousHash) \o <<SEP>>
    \o Quoted(h.MerkleRoot) \o <<SEP>> \o FmtInt(h.Timestamp) \o <<SEP>>
    \o FmtInt(h.Difficulty) \o <<SEP>> \o FmtInt(h.Nonce) \o <<SEP>>
    \o Quoted(h.Hash) \o <<SEP>> \o FmtInt(h.Height) \o <<RB>>

SerializeBlock(b) ==
    <<LB>> \o JsonHeader(b.Header) \o <<SEP>>
    \o JsonSlice("Transactions" \in b.Nil,
                 [i \in 1..Len(b.Transactions) |-> JsonTransaction(b.Transactions[i])])
    \o <<RB>>

\* Op applied to the value of v, once v has been computed.
Then(v, Op(_)) == CHOOSE r \in {Op(x) : x \in {v}} : TRUE

\* json.Unmarshal reading data from position p on: each reader gives the
\* value it read (v) and the position after it (p).
\* Characters copied out of a literal: a byte that is not valid UTF-8 is
\* read as U+FFFD.
Unquoted(s) == [i \in 1..Len(s) |-> IF s[i] \in {BAD, BAD2} THEN REPL ELSE s[i]]

\* The rest of a string literal from position p on, up to its closing
\* quote: a backslash stands for the quote or backslash after it, and the
\* escape \ufffd for the character U+FFFD.
RECURSIVE ReadChars(_, _, _)
ReadChars(d, p, acc) ==
    Then(CHOOSE k \in p..Len(d) :
             d[k] \in {QT, ESC} /\ \A r \in p..(k - 1) : d[r] \notin {QT, ESC},
         LAMBDA k :
             IF d[k] = QT
             THEN [v |-> acc \o Unquoted(SubSeq(d, p, k - 1)), p |-> k + 1]
             ELSE ReadChars(d, k + 2,
                            acc \o Unquoted(SubSeq(d, p, k - 1))
                                \o <<IF d[k + 1] = UFFFD THEN REPL ELSE d[k + 1]>>))

\* A string literal, whose opening quote is at p.
ReadString(d, p) == ReadChars(d, p + 1, EmptyString)

RECURSIVE DigitsValue(_, _, _, _)
DigitsValue(d, p, q, acc) ==
    IF p > q THEN acc ELSE DigitsValue(d, p + 1, q, 10 * acc + d[p])

\* An integer: an optional minus sign and the decimal digits after it.
ReadInt(d, p) ==
    LET s == IF d[p] = MINUS THEN p + 1 ELSE p
    IN Then(CHOOSE k \in s..(Len(d) + 1) :
                /\ k > Len(d) \/ d[k] > 9
                /\ \A r \in s..(k - 1) : d[r] <= 9,
            LAMBDA e :
                [v |-> IF s > p THEN -DigitsValue(d, s, e - 1, 0)
                       ELSE DigitsValue(d, s, e - 1, 0),
                 p |-> e])

\* The address whose encoding is the string tok.
AddrOf(tok) == CHOOSE a \in Addresses : AddrTok(a) = tok

ReadInput(d, p) ==
    Then(ReadString(d, p + 1), LAMBDA txid :
    Then(ReadInt(d, txid.p + 1), LAMBDA idx :
    Then(ReadString(d, idx.p + 1), LAMBDA pk :
    Then(ReadString(d, pk.p + 1), LAMBDA sig :
        [v |-> TxInput(txid.v, idx.v, AddrOf(pk.v), sig.v), p |-> sig.p + 1]))))

ReadOutput(d, p) ==
    Then(ReadInt(d, p + 1), LAMBDA value :
    Then(ReadString(d, value.p + 1), LAMBDA addr :
        [v |-> TxOutput(value.v, AddrOf(addr.v)), p |-> addr.p + 1]))

\* The elements of an array of inputs (kind 1) or outputs (kind 2) from
\* position p, after the opening bracket, up to the closing one.
RECURSIVE ReadItems(_, _, _, _)
ReadItems(d, p, kind, acc) ==
    IF d[p] = RB THEN [v |-> acc, p |-> p + 1]
    ELSE Then(IF kind = 1 THEN ReadInput(d, p) ELSE ReadOutput(d, p), LAMBDA e :
             ReadItems(d, IF d[e.p] = SEP THEN e.p + 1 ELSE e.p, kind, Append(acc, e.v)))

\* A slice of inputs or outputs from position p: null gives the nil slice,
\* an array a slice that is not nil.
ReadSlice(d, p, kind) ==
    IF d[p] = NULL THEN [v |-> <<>>, nil |-> TRUE, p |-> p + 1]
    ELSE Then(ReadItems(d, p + 1, kind, <<>>), LAMBDA items :
             [v |-> items.v, nil |-> FALSE, p |-> items.p])

ReadTransaction(d, p) ==
    Then(ReadString(d, p + 1), LAMBDA id :
    Then(ReadSlice(d, id.p + 1, 1), LAMBDA ins :
    Then(ReadSlice(d, ins.p + 1, 2), LAMBDA outs :
    Then(ReadInt(d, outs.p + 1), LAMBDA ts :
    Then(ReadString(d, ts.p + 1), LAMBDA sig :
        [v |-> [ID |-> id.v, Inputs |-> ins.v, Outputs |-> outs.v,
                Timestamp |-> ts.v, Signature |-> sig.v,
                Nil |-> (IF ins.nil THEN {"Inputs"} ELSE {})
                        \cup (IF outs.nil THEN {"Outputs"} ELSE {})],
         p |-> sig.p + 1])))))

RECURSIVE ReadTransactions(_, _, _)
ReadTransactions(d, p, acc) ==
    IF d[p] = RB THEN [v |-> acc, p |-> p + 1]
    ELSE Then(ReadTransaction(d, p), LAMBDA e :
             ReadTransactions(d, IF d[e.p] = SEP THEN e.p + 1 ELSE e.p, Append(acc, e.v)))

ReadHeader(d, p) ==
    Then(ReadInt(d, p + 1), LAMBDA version :
    Then(ReadString(d, version.p + 1), LAMBDA prev :
    Then(ReadString(d, prev.p + 1), LAMBDA root :
    Then(ReadInt(d, root.p + 1), LAMBDA ts :
    Then(ReadInt(d, ts.p + 1), LAMBDA diff :
    Then(ReadInt(d, diff.p + 1), LAMBDA nonce :
    Then(ReadString(d, nonce.p + 1), LAMBDA hash :
    Then(ReadInt(d, hash.p + 1), LAMBDA height :
        [v |-> [Version |-> version.v, PreviousHash |-> prev.v, MerkleRoot |-> root.v,
                Timestamp |-> ts.v, Difficulty |-> diff.v, Nonce |-> nonce.v,
                Hash |-> hash.v, Height |-> height.v],
         p |-> height.p + 1]))))))))

\* DeserializeTransaction(data) and DeserializeBlock(data), for data that
\* Serialize produced.
DeserializeTransaction(data) == Then(data, LAMBDA d : ReadTransaction(d, 1).v)

DeserializeBlock(data) ==
    Then(data, LAMBDA d :
    Then(ReadHeader(d, 2), LAMBDA header :
        IF d[header.p + 1] = NULL
        THEN [Header |-> header.v, Transactions |-> <<>>, Nil |-> {"Transactions"}]
        ELSE [Header |-> header.v,
              Transactions |-> ReadTransactions(d, header.p + 2, <<>>).v,
              Nil |-> {}]))

\* Strings a caller may put into a string field: valid ones and one holding
\* a byte that is not valid UTF-8.
SomeStrings == {EmptyString, <<1, 2>>, <<BAD, 1>>}

\* Transactions to serialize: those NewTransaction builds (two of them of
\* nil slices), and signed ones whose ID was computed after the signature
\* was set.
CodecTransactions(t) ==
    SomeTransactions(t)
    \cup {NewTransactionOf({"Inputs"}, <<>>, <<TxOutput(0, "alice")>>, t),
          NewTransactionOf({"Inputs", "Outputs"}, <<>>, <<>>, t)}
    \cup {LET tx == [Spend("genesis", "alice", 20, 30, t) EXCEPT !.Signature = sig]
          IN [tx EXCEPT !.ID = calculateID(tx)] : sig \in SomeStrings}

\* Transaction lists of blocks to serialize: a coinbase alone, and a
\* coinbase with one of the signed transactions.
CodecLists(t) ==
    FewLists(t)
    \cup {<<NewCoinbaseTransaction("miner1", BlockReward, t),
            LET tx == [Spend("genesis", "alice", 20, 30, t) EXCEPT !.Signature = sig]
            IN [tx EXCEPT !.ID = calculateID(tx)]>> : sig \in SomeStrings}

\* Blocks to serialize: the genesis block, a new block of a nil list, and
\* mined blocks of these lists on a predecessor hash.
CodecBlocks(t) ==
    {NewGenesisBlock(t),
     [NewBlock(<<>>, GenesisPreviousHash, 1, t) EXCEPT !.Nil = {"Transactions"}]}
    \cup {Mine(NewBlock(txs, prev, 1, t), 1) :
            txs \in CodecLists(t), prev \in {GenesisPreviousHash, <<1, 2>>}}

\* tx.Serialize().
DoSerializeTransaction ==
    \E tx \in CodecTransactions(now) :
        Read("Transaction.Serialize", <<tx>>, NoErr, <<SerializeTransaction(tx)>>)

\* DeserializeTransaction(data) on the data the last call produced; arg
\* keeps the transaction that was serialized.
DoDeserializeTransaction ==
    /\ ret.op = "Transaction.Serialize"
    /\ Read("DeserializeTransaction", ret.arg, NoErr,
            <<DeserializeTransaction(ret.val[1])>>)

\* b.Serialize().
DoSerializeBlock ==
    \E b \in CodecBlocks(now) :
        /\ MineTerminates(NewBlock(b.Transactions, b.Header.PreviousHash, 1, now), 1)
        /\ Read("Block.Serialize", <<b>>, NoErr, <<SerializeBlock(b)>>)

\* DeserializeBlock(data) on the data the last call produced; arg keeps the
\* block that was serialized.
DoDeserializeBlock ==
    /\ ret.op = "Block.Serialize"
    /\ Read("DeserializeBlock", ret.arg, NoErr, <<DeserializeBlock(ret.val[1])>>)

NextCodec ==
    \/ Tick
    \/ DoSerializeTransaction
    \/ DoDeserializeTransaction
    \/ DoSerializeBlock
    \/ DoDeserializeBlock

SpecCodec == Init /\ [][NextCodec]_vars

\* ------------------------------------------------------ the HTTP handlers
\* net/http runs every request in a goroutine of its own, beside the
\* auto-mining goroutine of main: the handlers are modelled statement by
\* statement, each call into the chain or the wallet with its own lock.
\* loc[t].handler names what goroutine t is running.
\* What requests carry: an address or the empty string, and an amount.
RequestAddresses == {"", "genesis", "miner1"}
RequestAmounts == {0, 20, 60}
RequestRecipients == {"alice"}

\* Seconds of the auto-mining goroutine's time.Sleep.
AutoMineSeconds == 30

\* The time a round of the goroutine sleeps: the 30 seconds asked for, or
\* longer.
SleepSeconds == {AutoMineSeconds, SlowSeconds + 1}

\* The auto-mining goroutine: time.Sleep(30 * time.Second).
MinerSleep(t) ==
    /\ t = Roles.miner
    /\ pc[t] = "idle"
    /\ Len(blocks) < MaxBlocks
    /\ \E d \in SleepSeconds : now' = now + d
    /\ pc' = [pc EXCEPT ![t] = "am.coinbase"]
    /\ loc' = [loc EXCEPT ![t].handler = "main", ![t].seen = <<>>]
    /\ UNCHANGED <<chainVars, seqVars, mutex>>

\* node.wallet.GetAddress() under the wallet's read lock, the coinbase, and
\* the call of AddBlock.
MinerCallAddBlock(t) ==
    /\ pc[t] = "am.coinbase"
    /\ CanRLock(wallet.mutex)
    /\ loc' = [loc EXCEPT
                  ![t].txs = <<NewCoinbaseTransaction(wallet.Address, BlockReward, now)>>,
                  ![t].err = NoErr]
    /\ pc' = [pc EXCEPT ![t] = "ab.lock"]
    /\ UNCHANGED <<chainVars, now, seqVars, mutex>>

\* AddBlock returns into the goroutine: the deferred Unlock, then the log
\* line of the failure, or GetHeight for the line of the success.
MinerAddBlockReturns(t) ==
    /\ pc[t] = "ab.unlock"
    /\ loc[t].handler = "main"
    /\ mutex' = [mutex EXCEPT !.w = NoThread, !.holding = FALSE]
    /\ loc' = [loc EXCEPT ![t].txs = <<>>, ![t].lastBlock = <<>>,
                          ![t].newBlock = <<>>,
                          ![t].handler = IF IsErr(loc[t].err) THEN "" ELSE @]
    /\ pc' = [pc EXCEPT ![t] = IF IsErr(loc[t].err) THEN "idle" ELSE "gh.rlock"]
    /\ UNCHANGED <<chainVars, now, seqVars>>

\* POST /api/v1/blocks/mine: n.wallet.GetAddress() under the wallet's read
\* lock, NewCoinbaseTransaction and the call of AddBlock.
MBCall(t) ==
    /\ t = Roles.caller
    /\ pc[t] = "idle"
    /\ Len(blocks) < MaxBlocks
    /\ CanRLock(wallet.mutex)
    /\ loc' = [loc EXCEPT
                  ![t].txs = <<NewCoinbaseTransaction(wallet.Address, BlockReward, now)>>,
                  ![t].err = NoErr, ![t].args = <<>>, ![t].seen = <<>>,
                  ![t].handler = "handleMineBlock"]
    /\ pc' = [pc EXCEPT ![t] = "ab.lock"]
    /\ UNCHANGED <<chainVars, now, seqVars, mutex>>

\* AddBlock returns into the handler: the deferred Unlock, then either the
\* 500 response (http.Error, "Failed to mine block: ...") and the return, or
\* the handler going on with the block its call appended.
MBAddBlockReturns(t) ==
    /\ pc[t] = "ab.unlock"
    /\ loc[t].handler = "handleMineBlock"
    /\ mutex' = [mutex EXCEPT !.w = NoThread, !.holding = FALSE]
    /\ loc' = [loc EXCEPT ![t].lastBlock = <<>>, ![t].newBlock = <<>>,
                          ![t].args = IF IsErr(loc[t].err) THEN <<>>
                                      ELSE loc[t].newBlock,
                          ![t].handler = IF IsErr(loc[t].err) THEN "" ELSE @]
    /\ pc' = [pc EXCEPT ![t] = IF IsErr(loc[t].err) THEN "idle" ELSE "mb.rlock"]
    /\ ret' = IF IsErr(loc[t].err)
              THEN [op |-> "handleMineBlock", arg |-> loc[t].txs,
                    err |-> loc[t].err, val |-> <<>>]
              ELSE ret
    /\ UNCHANGED <<chainVars, now, slices, writes, lastWrite, wallet, store>>

\* latestBlock := n.blockchain.GetLatestBlock(): RLock ...
MBRLock(t) ==
    /\ pc[t] = "mb.rlock"
    /\ CanRLock(mutex)
    /\ mutex' = [mutex EXCEPT !.readers[t] = @ + 1]
    /\ pc' = [pc EXCEPT ![t] = "mb.read"]
    /\ UNCHANGED <<chainVars, now, seqVars, loc>>

\* ... bc.blocks[len(bc.blocks)-1] ...
MBRead(t) ==
    /\ pc[t] = "mb.read"
    /\ loc' = [loc EXCEPT ![t].seen = <<heap[GetLatestBlock(bc)]>>]
    /\ pc' = [pc EXCEPT ![t] = "mb.runlock"]
    /\ UNCHANGED <<chainVars, now, seqVars, mutex>>

\* ... and the deferred RUnlock.
MBRUnlock(t) ==
    /\ pc[t] = "mb.runlock"
    /\ mutex' = [mutex EXCEPT !.readers[t] = @ - 1]
    /\ pc' = [pc EXCEPT ![t] = "mb.update"]
    /\ UNCHANGED <<chainVars, now, seqVars, loc>>

\* n.wallet.UpdateBalance(n.blockchain): w.mutex.Lock(), through the
\* writers' gate ...
MBUpdateAnnounce(t) ==
    /\ pc[t] = "mb.update"
    /\ CanAnnounce(wallet.mutex)
    /\ wallet' = [wallet EXCEPT !.mutex.w = t]
    /\ pc' = [pc EXCEPT ![t] = "mb.wait"]
    /\ UNCHANGED <<chainVars, now, ret, slices, writes, lastWrite, store, mutex, loc>>

\* ... and on once the readers of the wallet have left.
MBUpdateLock(t) ==
    /\ pc[t] = "mb.wait"
    /\ CanLock(wallet.mutex)
    /\ wallet' = [wallet EXCEPT !.mutex.holding = TRUE]
    /\ pc' = [pc EXCEPT ![t] = "mb.balance"]
    /\ UNCHANGED <<chainVars, now, ret, slices, writes, lastWrite, store, mutex, loc>>

\* w.Balance = bc.GetBalance(w.Address), read under the chain's read lock,
\* and the deferred w.mutex.Unlock().
MBUpdateBalance(t) ==
    /\ pc[t] = "mb.balance"
    /\ CanRLock(mutex)
    /\ wallet' = [wallet EXCEPT !.Balance = GetBalance(bc, wallet.Address),
                                !.mutex.w = NoThread, !.mutex.holding = FALSE]
    /\ pc' = [pc EXCEPT ![t] = "mb.respond"]
    /\ UNCHANGED <<chainVars, now, ret, slices, writes, lastWrite, store, mutex, loc>>

\* json.NewEncoder(w).Encode(latestBlock).
MBRespond(t) ==
    /\ pc[t] = "mb.respond"
    /\ Returned("handleMineBlock", loc[t].txs, NoErr, loc[t].seen)
    /\ loc' = [loc EXCEPT ![t].txs = <<>>, ![t].handler = ""]
    /\ pc' = [pc EXCEPT ![t] = "idle"]
    /\ UNCHANGED <<chainVars, now, slices, writes, lastWrite, wallet, store, mutex>>

\* What the goroutine of a POST /api/v1/blocks/mine request does.
MineRequest(t) ==
    \/ MBCall(t)
    \/ ABAnnounce(t)
    \/ ABLock(t)
    \/ ABMine(t)
    \/ ABValidate(t)
    \/ ABAppend(t)
    \/ ABFinish(t)
    \/ MBAddBlockReturns(t)
    \/ MBRLock(t)
    \/ MBRead(t)
    \/ MBRUnlock(t)
    \/ MBUpdateAnnounce(t)
    \/ MBUpdateLock(t)
    \/ MBUpdateBalance(t)
    \/ MBRespond(t)

\* ------------------------------------- Blockchain.CreateTransaction, in steps
\* A goroutine calls CreateTransaction(from, to, amount) by itself, beside a
\* goroutine that calls AddBlock.
CallCreateTransaction(t) ==
    /\ t = Roles.caller
    /\ pc[t] = "idle"
    /\ loc[t].calls < MaxCalls
    /\ \E from \in {"genesis", "miner1"}, amount \in {20, 60} :
          loc' = [loc EXCEPT ![t].args = <<from, "alice", amount>>,
                             ![t].err = NoErr, ![t].seen = <<>>]
    /\ pc' = [pc EXCEPT ![t] = "ct.rlock"]
    /\ UNCHANGED <<chainVars, now, seqVars, mutex>>

\* CreateTransaction: bc.mutex.RLock().
CTRLock(t) ==
    /\ pc[t] = "ct.rlock"
    /\ CanRLock(mutex)
    /\ mutex' = [mutex EXCEPT !.readers[t] = @ + 1]
    /\ pc' = [pc EXCEPT ![t] = "fu.rlock"]
    /\ UNCHANGED <<chainVars, now, seqVars, loc>>

\* bc.FindUTXO(from): bc.mutex.RLock() once more, by the same goroutine.
FURLock(t) ==
    /\ pc[t] = "fu.rlock"
    /\ CanRLock(mutex)
    /\ mutex' = [mutex EXCEPT !.readers[t] = @ + 1]
    /\ pc' = [pc EXCEPT ![t] = "fu.read"]
    /\ UNCHANGED <<chainVars, now, seqVars, loc>>

\* FindUTXO: the copy of the bucket.
FURead(t) ==
    /\ pc[t] = "fu.read"
    /\ loc' = [loc EXCEPT ![t].seen = FindUTXO(bc, loc[t].args[1])]
    /\ pc' = [pc EXCEPT ![t] = "fu.runlock"]
    /\ UNCHANGED <<chainVars, now, seqVars, mutex>>

\* FindUTXO: the deferred RUnlock.
FURUnlock(t) ==
    /\ pc[t] = "fu.runlock"
    /\ mutex' = [mutex EXCEPT !.readers[t] = @ - 1]
    /\ pc' = [pc EXCEPT ![t] = "ct.build"]
    /\ UNCHANGED <<chainVars, now, seqVars, loc>>

\* CreateTransaction: the inputs, the outputs, the transaction or the error.
CTBuild(t) ==
    /\ pc[t] = "ct.build"
    /\ \E created \in {CreateTransaction(bc, loc[t].args[1], loc[t].args[2],
                                         loc[t].args[3], now)} :
          loc' = [loc EXCEPT ![t].err = created.err, ![t].seen = created.val]
    /\ pc' = [pc EXCEPT ![t] = "ct.runlock"]
    /\ UNCHANGED <<chainVars, now, seqVars, mutex>>

\* CreateTransaction: the deferred RUnlock, and the return.
CTRUnlock(t) ==
    /\ pc[t] = "ct.runlock"
    /\ mutex' = [mutex EXCEPT !.readers[t] = @ - 1]
    /\ pc' = [pc EXCEPT ![t] = "idle"]
    /\ loc' = [loc EXCEPT ![t].calls = @ + 1, ![t].args = <<>>]
    /\ UNCHANGED <<chainVars, now, seqVars>>

\* ------------------------------------------------------------ the wallet
\* One goroutine calls the wallet's methods, a step at a time; the wallet's
\* mutex is a sync.RWMutex like the chain's.
\* crypto.SignHex signs with fresh randomness: the signature is one of
\* several hex strings.  The public key is a fixed hex string.
Signatures == {<<3, 0, 4>>, <<3, 0, 5>>}
PublicKeyHex == "027f"
WalletAmounts == {20, 60}

WalletAt(label) == wallet.pc = label

\* w.CreateTransaction(to, amount, bc) is called.
WalletCallCreateTransaction ==
    /\ WalletAt("idle")
    /\ \E to \in Recipients, amount \in WalletAmounts :
          wallet' = [wallet EXCEPT !.pc = "ct.lock",
                                   !.loc = [NoWalletLocals EXCEPT
                                               !.op = "CreateTransaction",
                                               !.to = to, !.amount = amount]]
    /\ UNCHANGED <<chainVars, now, ret, slices, writes, lastWrite, store, mutex, pc, loc>>

\* w.mutex.Lock().
WalletLock ==
    /\ WalletAt("ct.lock")
    /\ CanAnnounce(wallet.mutex) /\ CanLock(wallet.mutex)
    /\ wallet' = [wallet EXCEPT !.mutex.w = WalletThread, !.mutex.holding = TRUE,
                                !.pc = "ct.balance"]
    /\ UNCHANGED <<chainVars, now, ret, slices, writes, lastWrite, store, mutex, pc, loc>>

\* w.Balance = bc.GetBalance(w.Address), and the check of the funds.
WalletReadBalance ==
    /\ WalletAt("ct.balance")
    /\ CanRLock(mutex)
    /\ \E balance \in {GetBalance(bc, wallet.Address)} :
          wallet' = [wallet EXCEPT
                        !.Balance = balance,
                        !.loc.err = IF balance < wallet.loc.amount
                                    THEN <<"insufficient funds: have", balance,
                                           "need", wallet.loc.amount>>
                                    ELSE NoErr,
                        !.pc = IF balance < wallet.loc.amount
                               THEN "ct.unlock" ELSE "ct.create"]
    /\ UNCHANGED <<chainVars, now, ret, slices, writes, lastWrite, store, mutex, pc, loc>>

\* tx, err := bc.CreateTransaction(w.Address, to, amount): the call.  The
\* wallet's goroutine runs the steps of CreateTransaction (CTRLock to
\* CTBuild) as goroutine WalletThread of the chain's mutex.
WalletCreate ==
    /\ WalletAt("ct.create")
    /\ pc[WalletThread] = "idle"
    /\ loc' = [loc EXCEPT
                  ![WalletThread].args = <<wallet.Address, wallet.loc.to,
                                           wallet.loc.amount>>,
                  ![WalletThread].err = NoErr, ![WalletThread].seen = <<>>]
    /\ pc' = [pc EXCEPT ![WalletThread] = "ct.rlock"]
    /\ wallet' = [wallet EXCEPT !.pc = "bc.create"]
    /\ UNCHANGED <<chainVars, now, seqVarsButWallet, mutex>>

\* bc.CreateTransaction returns into the wallet's goroutine: the deferred
\* RUnlock of the chain's mutex; then, in Wallet.CreateTransaction, the
\* error returned or w.SignTransaction(tx) called; in a caller that signs
\* what it created, the same with SignTransaction called by itself.
WalletCreateReturns ==
    /\ WalletAt("bc.create")
    /\ pc[WalletThread] = "ct.runlock"
    /\ mutex' = [mutex EXCEPT !.readers[WalletThread] = @ - 1]
    /\ pc' = [pc EXCEPT ![WalletThread] = "idle"]
    /\ loc' = [loc EXCEPT ![WalletThread].args = <<>>, ![WalletThread].seen = <<>>,
                          ![WalletThread].err = NoErr]
    /\ IF wallet.loc.op = "CreateTransaction"
       THEN /\ wallet' = [wallet EXCEPT
                             !.loc.tx = loc[WalletThread].seen,
                             !.loc.err = loc[WalletThread].err,
                             !.pc = IF IsErr(loc[WalletThread].err)
                                    THEN "ct.unlock" ELSE "st.rlock"]
            /\ UNCHANGED ret
       ELSE IF IsErr(loc[WalletThread].err)
       THEN /\ wallet' = [wallet EXCEPT !.pc = "idle", !.loc = NoWalletLocals]
            /\ Returned("CreateTransaction", loc[WalletThread].args,
                        loc[WalletThread].err, <<>>)
       ELSE /\ wallet' = [wallet EXCEPT !.loc.tx = loc[WalletThread].seen,
                                        !.pc = "st.rlock"]
            /\ UNCHANGED ret
    /\ UNCHANGED <<chainVars, now, slices, writes, lastWrite, store>>

\* The steps of the wallet's goroutine inside bc.CreateTransaction.
WalletInCreate ==
    \/ CTRLock(WalletThread)
    \/ FURLock(WalletThread)
    \/ FURead(WalletThread)
    \/ FURUnlock(WalletThread)
    \/ CTBuild(WalletThread)
    \/ WalletCreateReturns

\* w.SignTransaction(tx) is called by itself, on a transaction that spends
\* outputs of the wallet's address.
WalletCallSignTransaction ==
    /\ WalletAt("idle")
    /\ wallet' = [wallet EXCEPT
                     !.pc = "st.rlock",
                     !.loc = [NoWalletLocals EXCEPT
                                 !.op = "SignTransaction",
                                 !.tx = <<Spend(wallet.Address, "alice", 20, 30, now)>>]]
    /\ UNCHANGED <<chainVars, now, ret, slices, writes, lastWrite, store, mutex, pc, loc>>

\* SignTransaction: w.mutex.RLock().
WalletSignRLock ==
    /\ WalletAt("st.rlock")
    /\ CanRLock(wallet.mutex)
    /\ wallet' = [wallet EXCEPT !.mutex.readers[WalletThread] = @ + 1,
                                !.pc = "st.sign"]
    /\ UNCHANGED <<chainVars, now, ret, slices, writes, lastWrite, store, mutex, pc, loc>>

\* SignTransaction: the signature over the copy, stored in tx.Signature.
WalletSign ==
    /\ WalletAt("st.sign")
    /\ \E signature \in Signatures :
          wallet' = [wallet EXCEPT
                        !.loc.signature = signature,
                        !.loc.tx = <<[wallet.loc.tx[1] EXCEPT !.Signature = signature]>>,
                        !.loc.i = 1,
                        !.pc = "st.inputs"]
    /\ UNCHANGED <<chainVars, now, ret, slices, writes, lastWrite, store, mutex, pc, loc>>

\* SignTransaction: one round of the loop over the inputs; w.GetPublicKey()
\* takes the read lock once more and gives it back.
WalletSignInput ==
    /\ WalletAt("st.inputs")
    /\ \E tx \in {wallet.loc.tx[1]}, i \in {wallet.loc.i} :
          IF i > Len(tx.Inputs)
          THEN wallet' = [wallet EXCEPT !.pc = "st.runlock"]
          ELSE /\ CanRLock(wallet.mutex)
               /\ wallet' = [wallet EXCEPT
                                !.loc.tx = <<[tx EXCEPT
                                    !.Inputs[i].PublicKey = PublicKeyHex,
                                    !.Inputs[i].Signature = wallet.loc.signature]>>,
                                !.loc.i = i + 1]
    /\ UNCHANGED <<chainVars, now, ret, slices, writes, lastWrite, store, mutex, pc, loc>>

\* SignTransaction: the deferred w.mutex.RUnlock(), and the return, to the
\* caller or into CreateTransaction.
WalletSignRUnlock ==
    /\ WalletAt("st.runlock")
    /\ IF wallet.loc.op = "SignTransaction"
       THEN /\ wallet' = [wallet EXCEPT !.mutex.readers[WalletThread] = @ - 1,
                                        !.pc = "idle", !.loc = NoWalletLocals]
            /\ Returned("Wallet.SignTransaction", <<>>, NoErr, wallet.loc.tx)
       ELSE /\ wallet' = [wallet EXCEPT !.mutex.readers[WalletThread] = @ - 1,
                                        !.pc = "ct.unlock"]
            /\ UNCHANGED ret
    /\ UNCHANGED <<chainVars, now, slices, writes, lastWrite, store, mutex, pc, loc>>

\* CreateTransaction: the deferred w.mutex.Unlock(), and the return.
WalletUnlock ==
    /\ WalletAt("ct.unlock")
    /\ wallet' = [wallet EXCEPT !.mutex.w = NoThread, !.mutex.holding = FALSE,
                                !.pc = "idle", !.loc = NoWalletLocals]
    /\ Returned("Wallet.CreateTransaction", <<wallet.loc.to, wallet.loc.amount>>,
                wallet.loc.err,
                IF IsErr(wallet.loc.err) THEN <<>> ELSE wallet.loc.tx)
    /\ UNCHANGED <<chainVars, now, slices, writes, lastWrite, store, mutex, pc, loc>>

WalletStep ==
    \/ WalletLock
    \/ WalletReadBalance
    \/ WalletCreate
    \/ WalletInCreate
    \/ WalletSignRLock
    \/ WalletSign
    \/ WalletSignInput
    \/ WalletSignRUnlock
    \/ WalletUnlock

NextWallet ==
    \/ Tick
    \/ MineRequest(Roles.caller)
    \/ WalletCallCreateTransaction
    \/ WalletCallSignTransaction
    \/ WalletLock
    \/ WalletReadBalance
    \/ WalletCreate
    \/ CTRLock(WalletThread)
    \/ FURLock(WalletThread)
    \/ FURead(WalletThread)
    \/ FURUnlock(WalletThread)
    \/ CTBuild(WalletThread)
    \/ WalletCreateReturns
    \/ WalletSignRLock
    \/ WalletSign
    \/ WalletSignInput
    \/ WalletSignRUnlock
    \/ WalletUnlock

\* The goroutine in the wallet runs whenever it can.
SpecWallet == Init /\ [][NextWallet]_vars /\ WF_vars(WalletStep)

\* ---------------------------------------------------- Block.Validate alone
\* Blocks as a caller can hand them to Validate: built by NewBlock from a
\* list, a previous hash and a height, the merkle root stale or not, the
\* hash set over the header as it then stands, or stale.
SomePreviousHashes == {NewGenesisBlock(0).Header.Hash, <<1, 2>>}
SomeHeights == {1, 2}

BuiltBlocks(t) ==
    {LET n == NewBlock(txs, prevHash, height, t)
         m == IF staleRoot THEN [n EXCEPT !.Header.MerkleRoot = <<1, 2>>] ELSE n
     IN IF staleHash THEN m ELSE [m EXCEPT !.Header.Hash = calculateHash(m)] :
        txs \in TxLists(t), prevHash \in SomePreviousHashes, height \in SomeHeights,
        staleRoot \in BOOLEAN, staleHash \in BOOLEAN}

\* The predecessor handed over: nil or the genesis block.
SomePredecessors == {<<>>, <<NewGenesisBlock(0)>>}

\* b.Validate(previousBlock).
DoBlockValidate ==
    \E b \in BuiltBlocks(now), previousBlock \in SomePredecessors :
        Read("Block.Validate", <<b, previousBlock>>, Validate(b, previousBlock), <<>>)

NextBlock ==
    \/ Tick
    \/ DoBlockValidate

SpecBlock == Init /\ [][NextBlock]_vars

\* ------------------------------------- a transaction changed, then validated
\* Signatures a caller stores in a transaction before its ID is computed:
\* none, a string of valid UTF-8, strings with an invalid byte or with the
\* replacement character.
SomeSignatures == {EmptyString, <<1>>, <<BAD, 1>>, <<BAD2, 1>>, <<REPL, 1>>}

\* Transactions whose ID was computed over their four other fields.
IdentifiedTransactions(t) ==
    {LET tx == [ID |-> EmptyString, Inputs |-> ins, Outputs |-> outs,
                Timestamp |-> t, Signature |-> sig, Nil |-> {}]
     IN [tx EXCEPT !.ID = calculateID(tx)] :
        ins \in SomeInputs,
        outs \in {<<>>, <<TxOutput(0, "alice")>>, <<TxOutput(1, "alice")>>,
                  <<TxOutput(1, "alice"), TxOutput(BlockReward, "miner1")>>},
        sig \in SomeSignatures}

\* What a holder of the transaction does to it afterwards: nothing, or one
\* of the four fields replaced (the inputs also by nil).
Changes(tx) ==
    {tx}
    \cup {[tx EXCEPT !.Inputs = ins] : ins \in SomeInputs}
    \cup {[tx EXCEPT !.Inputs = <<>>, !.Nil = {"Inputs"}]}
    \cup {[tx EXCEPT !.Outputs = outs] :
             outs \in {<<>>, <<TxOutput(1, "alice")>>, <<TxOutput(1, "miner1")>>}}
    \cup {[tx EXCEPT !.Timestamp = @ + 1]}
    \cup {[tx EXCEPT !.Signature = sig] : sig \in SomeSignatures}

\* The ID is computed.
DoIdentify ==
    \E tx \in IdentifiedTransactions(now) :
        Read("calculateID", <<>>, NoErr, <<tx>>)

\* The transaction is changed, or not, and tx.Validate() is called.
DoChangeAndValidate ==
    /\ ret.op = "calculateID"
    /\ \E changed \in Changes(ret.val[1]) :
          Read("Transaction.Validate", <<ret.val[1], changed>>, TxValidate(changed),
               <<changed>>)

NextChange ==
    \/ Tick
    \/ DoIdentify
    \/ DoChangeAndValidate

SpecChange == Init /\ [][NextChange]_vars

\* ------------------------------------------------- blocks that move outputs
\* Lists whose blocks spend: from a bucket filled by the same block, from a
\* bucket of two entries of different values, twice from a bucket of one
\* entry, from an address that has no bucket.
IndexLists(t) ==
    {<<NewCoinbaseTransaction("miner1", BlockReward, t)>>,
     <<NewCoinbaseTransaction("alice", BlockReward, t),
       Spend("alice", "miner1", 20, 0, t)>>,
     <<NewCoinbaseTransaction("miner1", 30, t),
       Spend("miner1", "alice", 20, 30, t)>>,
     <<NewCoinbaseTransaction("miner1", BlockReward, t),
       NewTransaction(<<TxInput(EmptyString, 0, "genesis", EmptyString),
                        TxInput(EmptyString, 0, "genesis", EmptyString)>>,
                      <<TxOutput(20, "genesis")>>, t)>>,
     <<NewCoinbaseTransaction("miner1", BlockReward, t),
       NewTransaction(<<TxInput(EmptyString, 0, "bob", EmptyString)>>,
                      <<TxOutput(5, "alice")>>, t)>>}

\* bc.AddBlock(txs) with one of these lists.
IndexAddBlock == AddBlockFrom(IndexLists(now))

NextIndex ==
    \/ Tick
    \/ IndexAddBlock
    \/ DoFindUTXO

SpecIndex == Init /\ [][NextIndex]_vars

\* ------------------------------------ CreateTransaction beside AddBlock
\* A goroutine holds the write lock and its mining search has not ended.
MiningInFlight == \E u \in Threads : pc[u] = "ab.mine"

\* What a goroutine inside a call does next, the mining search apart.
InCallStep(t) ==
    \/ ABAnnounce(t)
    \/ ABLock(t)
    \/ ABValidate(t)
    \/ ABAppend(t)
    \/ ABFinish(t)
    \/ ABUnlock(t)
    \/ CTRLock(t)
    \/ FURLock(t)
    \/ FURead(t)
    \/ FURUnlock(t)
    \/ CTBuild(t)
    \/ CTRUnlock(t)

NextReaders ==
    \E t \in Threads :
        \/ WriterCallAddBlock(t)
        \/ ABAnnounce(t)
        \/ ABLock(t)
        \/ ABMine(t)
        \/ ABValidate(t)
        \/ ABAppend(t)
        \/ ABFinish(t)
        \/ ABUnlock(t)
        \/ CallCreateTransaction(t)
        \/ CTRLock(t)
        \/ FURLock(t)
        \/ FURead(t)
        \/ FURUnlock(t)
        \/ CTBuild(t)
        \/ CTRUnlock(t)

\* Every goroutine inside a call goes on whenever it can, and every mining
\* search ends.
SpecReaders ==
    /\ Init /\ [][NextReaders]_vars
    /\ \A t \in Threads : WF_vars(InCallStep(t))
    /\ []<>(~MiningInFlight)

\* ------------------------------------------ spends made by CreateTransaction
\* bc.CreateTransaction(from, to, amount) with a positive amount; the caller
\* keeps the transaction.
ValueCreateTransaction ==
    \E from \in {"genesis", "miner1"}, to \in Recipients, amount \in {20, 50} :
        \E created \in {CreateTransaction(bc, from, to, amount, now)} :
            Read("CreateTransaction", <<from, to, amount>>, created.err, created.val)

\* bc.AddBlock of a coinbase alone.
ValueMine == AddBlockFrom(MinerLists(now))

\* bc.AddBlock of a coinbase and the transaction CreateTransaction just
\* returned.
ValueAddCreated ==
    /\ ret.op = "CreateTransaction"
    /\ ~IsErr(ret.err)
    /\ AddBlockFrom({<<NewCoinbaseTransaction("miner1", BlockReward, now)>> \o ret.val})

\* The spend transactions the chain holds.
ChainSpends ==
    UNION {{BlockAt(bc, i).Transactions[j] :
               j \in {k \in 1..Len(BlockAt(bc, i).Transactions) :
                         ~IsCoinbase(BlockAt(bc, i).Transactions[k])}} :
           i \in 1..Len(blocks)}

\* bc.AddBlock of a coinbase and a transaction that an earlier block carries
\* already.
ValueAddAgain ==
    AddBlockFrom({<<NewCoinbaseTransaction("miner1", BlockReward, now), tx>> :
                     tx \in ChainSpends})

NextValue ==
    \/ Tick
    \/ ValueCreateTransaction
    \/ ValueMine
    \/ ValueAddCreated
    \/ ValueAddAgain

SpecValue == Init /\ [][NextValue]_vars

\* -------------------------------- a validated block, its transactions replaced
\* Three transactions that pass Transaction.Validate, the lists of up to four
\* of them, and the blocks NewBlock builds on the genesis block from lists
\* that start with the coinbase, with their hash set.
ValidTransactions(t) ==
    {NewCoinbaseTransaction("miner1", BlockReward, t),
     Spend("genesis", "alice", 20, 30, t),
     Spend("alice", "miner1", 20, 0, t)}

ReplacementLists(t) ==
    UNION {[1..n -> ValidTransactions(t)] : n \in 1..4}

ValidatedBlocks(t) ==
    {LET n == NewBlock(txs, NewGenesisBlock(0).Header.Hash, 1, t)
     IN [n EXCEPT !.Header.Hash = calculateHash(n)] :
        txs \in {<<NewCoinbaseTransaction("miner1", BlockReward, t)>>,
                 <<NewCoinbaseTransaction("miner1", BlockReward, t),
                   Spend("genesis", "alice", 20, 30, t)>>,
                 <<NewCoinbaseTransaction("miner1", BlockReward, t),
                   Spend("genesis", "alice", 20, 30, t),
                   Spend("alice", "miner1", 20, 0, t)>>}}

\* b.Validate(previousBlock) on a block that passes.
DoValidateBuilt ==
    \E b \in ValidatedBlocks(now) :
        Read("Block.Validate", <<b>>, Validate(b, <<NewGenesisBlock(0)>>), <<b>>)

\* The holder of the block assigns b.Transactions and calls b.Validate again.
DoReplaceAndValidate ==
    /\ ret.op = "Block.Validate"
    /\ ~IsErr(ret.err)
    /\ \E txs \in ReplacementLists(now) :
          \E replaced \in {[ret.arg[1] EXCEPT !.Transactions = txs]} :
              Read("Block.Validate", <<ret.arg[1], txs>>,
                   Validate(replaced, <<NewGenesisBlock(0)>>), <<replaced>>)

NextReplace ==
    \/ Tick
    \/ DoValidateBuilt
    \/ DoReplaceAndValidate

SpecReplace == Init /\ [][NextReplace]_vars

\* --------------------------------------- a created transaction, signed
\* tx, err := bc.CreateTransaction(from, to, amount), then, when it
\* succeeded, w.SignTransaction(tx): the call of CreateTransaction, whose
\* steps the goroutine runs one by one (WalletCreateReturns ends them).
WalletCallSignCreated ==
    /\ WalletAt("idle")
    /\ pc[WalletThread] = "idle"
    /\ \E from \in {wallet.Address, "genesis"}, amount \in WalletAmounts :
          /\ loc' = [loc EXCEPT ![WalletThread].args = <<from, "alice", amount>>,
                                ![WalletThread].err = NoErr,
                                ![WalletThread].seen = <<>>]
          /\ wallet' = [wallet EXCEPT
                           !.pc = "bc.create",
                           !.loc = [NoWalletLocals EXCEPT
                                       !.op = "SignTransaction",
                                       !.to = from, !.amount = amount]]
    /\ pc' = [pc EXCEPT ![WalletThread] = "ct.rlock"]
    /\ UNCHANGED <<chainVars, now, seqVarsButWallet, mutex>>

\* tx.Validate() on the transaction SignTransaction has just signed.
DoValidateSigned ==
    /\ ret.op = "Wallet.SignTransaction"
    /\ Read("Transaction.Validate", ret.val, TxValidate(ret.val[1]), <<>>)

NextSign ==
    \/ Tick
    \/ MineRequest(Roles.caller)
    \/ WalletCallSignCreated
    \/ CTRLock(WalletThread)
    \/ FURLock(WalletThread)
    \/ FURead(WalletThread)
    \/ FURUnlock(WalletThread)
    \/ CTBuild(WalletThread)
    \/ WalletCreateReturns
    \/ WalletSignRLock
    \/ WalletSign
    \/ WalletSignInput
    \/ WalletSignRUnlock
    \/ DoValidateSigned

SpecSign == Init /\ [][NextSign]_vars

\* ------------------------- POST /blocks/mine beside the auto-mining goroutine
\* GetHeight returns to its caller: the deferred RUnlock, then the log line
\* of the auto-mining goroutine, or the response of the wallet handler with
\* the status "confirmed" and the height read.
GHReturns(t) ==
    /\ pc[t] = "gh.runlock"
    /\ loc[t].handler \in {"main", "WalletHandler.CreateTransaction"}
    /\ mutex' = [mutex EXCEPT !.readers[t] = @ - 1]
    /\ pc' = [pc EXCEPT ![t] = "idle"]
    /\ loc' = [loc EXCEPT ![t].handler = "", ![t].txs = <<>>]
    /\ ret' = IF loc[t].handler = "main" THEN ret
              ELSE [op |-> loc[t].handler, arg |-> loc[t].args \o loc[t].txs,
                    err |-> NoErr,
                    val |-> <<"OK",
                              [transaction_id |-> loc[t].txs[1].ID,
                               from |-> loc[t].args[1], to |-> loc[t].args[2],
                               amount |-> loc[t].args[3], status |-> "confirmed",
                               block_height |-> loc[t].seen[1]]>>]
    /\ UNCHANGED <<chainVars, now, slices, writes, lastWrite, wallet, store>>

\* The auto-mining goroutine (Roles.miner) and the goroutine of one
\* POST /api/v1/blocks/mine request after another (Roles.caller).
NextServe ==
    \E t \in Threads :
        \/ MinerSleep(t)
        \/ MinerCallAddBlock(t)
        \/ MinerAddBlockReturns(t)
        \/ GHRLock(t)
        \/ GHRead(t)
        \/ GHReturns(t)
        \/ MBCall(t)
        \/ ABAnnounce(t)
        \/ ABLock(t)
        \/ ABMine(t)
        \/ ABValidate(t)
        \/ ABAppend(t)
        \/ ABFinish(t)
        \/ MBAddBlockReturns(t)
        \/ MBRLock(t)
        \/ MBRead(t)
        \/ MBRUnlock(t)
        \/ MBUpdateAnnounce(t)
        \/ MBUpdateLock(t)
        \/ MBUpdateBalance(t)
        \/ MBRespond(t)

SpecServe == Init /\ [][NextServe]_vars

\* ------------------------------------------ the transaction handlers, in steps
TransactionHandlers == {"handleCreateTransaction", "WalletHandler.CreateTransaction"}

\* POST /api/v1/transactions and POST /api/v1/wallet/transaction: the
\* decoded request is checked, and answered 400 or handed to
\* blockchain.CreateTransaction.
HCCall(t) ==
    /\ t = Roles.caller
    /\ pc[t] = "idle"
    /\ Len(blocks) < MaxBlocks
    /\ \E handler \in TransactionHandlers, from \in RequestAddresses,
          to \in RequestRecipients, amount \in RequestAmounts :
          IF from = "" \/ to = "" \/ amount <= 0
          THEN /\ Returned(handler, <<from, to, amount>>,
                           <<"Invalid transaction parameters">>, <<"BadRequest">>)
               /\ UNCHANGED <<pc, loc>>
          ELSE /\ loc' = [loc EXCEPT ![t].args = <<from, to, amount>>,
                                     ![t].err = NoErr, ![t].seen = <<>>,
                                     ![t].txs = <<>>, ![t].handler = handler]
               /\ pc' = [pc EXCEPT ![t] = "ct.rlock"]
               /\ UNCHANGED ret
    /\ UNCHANGED <<chainVars, now, slices, writes, lastWrite, wallet, store, mutex>>

\* CreateTransaction returns into the handler: the deferred RUnlock, then
\* the 400 response, or AddBlock called with the transaction alone.
HCCreateReturns(t) ==
    /\ pc[t] = "ct.runlock"
    /\ loc[t].handler \in TransactionHandlers
    /\ mutex' = [mutex EXCEPT !.readers[t] = @ - 1]
    /\ IF IsErr(loc[t].err)
       THEN /\ Returned(loc[t].handler, loc[t].args,
                        <<"Failed to create transaction">> \o loc[t].err,
                        <<"BadRequest">>)
            /\ pc' = [pc EXCEPT ![t] = "idle"]
            /\ loc' = [loc EXCEPT ![t].handler = ""]
       ELSE /\ UNCHANGED ret
            /\ pc' = [pc EXCEPT ![t] = "ab.lock"]
            /\ loc' = [loc EXCEPT ![t].txs = loc[t].seen, ![t].err = NoErr]
    /\ UNCHANGED <<chainVars, now, slices, writes, lastWrite, wallet, store>>

\* AddBlock returns into the handler: the deferred Unlock, then the 500
\* response, or the transaction as the response of the node's handler, or
\* GetHeight for the response of the wallet handler.
HCAddBlockReturns(t) ==
    /\ pc[t] = "ab.unlock"
    /\ loc[t].handler \in TransactionHandlers
    /\ mutex' = [mutex EXCEPT !.w = NoThread, !.holding = FALSE]
    /\ IF IsErr(loc[t].err)
       THEN /\ Returned(loc[t].handler, loc[t].args \o loc[t].txs,
                        <<"Failed to add transaction to blockchain">> \o loc[t].err,
                        <<"InternalServerError">>)
            /\ pc' = [pc EXCEPT ![t] = "idle"]
            /\ loc' = [loc EXCEPT ![t].handler = "", ![t].txs = <<>>,
                                  ![t].lastBlock = <<>>, ![t].newBlock = <<>>]
       ELSE IF loc[t].handler = "handleCreateTransaction"
       THEN /\ Returned(loc[t].handler, loc[t].args \o loc[t].txs, NoErr,
                        <<"OK">> \o loc[t].txs)
            /\ pc' = [pc EXCEPT ![t] = "idle"]
            /\ loc' = [loc EXCEPT ![t].handler = "", ![t].txs = <<>>,
                                  ![t].lastBlock = <<>>, ![t].newBlock = <<>>]
       ELSE /\ UNCHANGED ret
            /\ pc' = [pc EXCEPT ![t] = "gh.rlock"]
            /\ loc' = [loc EXCEPT ![t].lastBlock = <<>>, ![t].newBlock = <<>>]
    /\ UNCHANGED <<chainVars, now, slices, writes, lastWrite, wallet, store>>

\* The node: the auto-mining goroutine (Roles.miner) beside the goroutine
\* of one request after another (Roles.caller).
NextNode ==
    \E t \in Threads :
        \/ MinerSleep(t)
        \/ MinerCallAddBlock(t)
        \/ MinerAddBlockReturns(t)
        \/ GHRLock(t)
        \/ GHRead(t)
        \/ GHReturns(t)
        \/ MBCall(t)
        \/ HCCall(t)
        \/ CTRLock(t)
        \/ FURLock(t)
        \/ FURead(t)
        \/ FURUnlock(t)
        \/ CTBuild(t)
        \/ HCCreateReturns(t)
        \/ ABAnnounce(t)
        \/ ABLock(t)
        \/ ABMine(t)
        \/ ABValidate(t)
        \/ ABAppend(t)
        \/ ABFinish(t)
        \/ HCAddBlockReturns(t)
        \/ MBAddBlockReturns(t)
        \/ MBRLock(t)
        \/ MBRead(t)
        \/ MBRUnlock(t)
        \/ MBUpdateAnnounce(t)
        \/ MBUpdateLock(t)
        \/ MBUpdateBalance(t)
        \/ MBRespond(t)

SpecNode == Init /\ [][NextNode]_vars

\* ------------------------------------------------------------ MemoryStorage
\* m[k] = v and delete(m, k) on a Go map.
MapSet(m, k, v) == [x \in DOMAIN m \cup {k} |-> IF x = k THEN v ELSE m[x]]
MapDelete(m, k) == [x \in DOMAIN m \ {k} |-> m[x]]

\* The loop of SaveBlock, "for _, tx := range block.Transactions
\* { ms.transactions[tx.ID] = &tx }", from transaction i on.  Where the
\* language gives every iteration its own tx (perIteration, go 1.22 and
\* later) each entry points to a copy of its transaction; where the loop has
\* one tx (the versions before) every entry of the call points to that one
\* variable, which holds the last transaction when the loop ends.
RECURSIVE SaveTransactions(_, _, _, _)
SaveTransactions(transactions, txs, i, perIteration) ==
    IF i > Len(txs) THEN transactions
    ELSE SaveTransactions(
             MapSet(transactions, txs[i].ID,
                    IF perIteration THEN txs[i] ELSE txs[Len(txs)]),
             txs, i + 1, perIteration)

\* MemoryStorage.SaveBlock(block); block is <<>> for nil.
SaveBlock(s, block, perIteration) ==
    IF block = <<>>
    THEN [s |-> s, err |-> <<"block cannot be nil">>]
    ELSE [s |-> [blocks |-> MapSet(s.blocks, block[1].Header.Hash, block[1]),
                 blocksByHeight |->
                     MapSet(s.blocksByHeight, block[1].Header.Height, block[1]),
                 transactions |->
                     SaveTransactions(s.transactions, block[1].Transactions, 1,
                                      perIteration)],
          err |-> NoErr]

\* MemoryStorage.GetBlock(hash).
StorageGetBlock(s, hash) ==
    IF hash \in DOMAIN s.blocks
    THEN [val |-> <<s.blocks[hash]>>, err |-> NoErr]
    ELSE [val |-> <<>>, err |-> <<"block not found: ", hash>>]

\* MemoryStorage.GetBlockByHeight(height).
GetBlockByHeight(s, height) ==
    IF height \in DOMAIN s.blocksByHeight
    THEN [val |-> <<s.blocksByHeight[height]>>, err |-> NoErr]
    ELSE [val |-> <<>>, err |-> <<"block not found at height: ", height>>]

\* The loop of DeleteBlock over the block's transactions, from i on.
RECURSIVE DeleteTransactions(_, _, _)
DeleteTransactions(transactions, txs, i) ==
    IF i > Len(txs) THEN transactions
    ELSE DeleteTransactions(MapDelete(transactions, txs[i].ID), txs, i + 1)

\* MemoryStorage.DeleteBlock(hash).
DeleteBlock(s, hash) ==
    IF hash \notin DOMAIN s.blocks
    THEN [s |-> s, err |-> <<"block not found: ", hash>>]
    ELSE LET block == s.blocks[hash]
         IN [s |-> [blocks |-> MapDelete(s.blocks, hash),
                    blocksByHeight |->
                        MapDelete(s.blocksByHeight, block.Header.Height),
                    transactions |->
                        DeleteTransactions(s.transactions, block.Transactions, 1)],
             err |-> NoErr]

\* MemoryStorage.SaveTransaction(tx); tx is <<>> for nil.
SaveTransaction(s, tx) ==
    IF tx = <<>>
    THEN [s |-> s, err |-> <<"transaction cannot be nil">>]
    ELSE [s |-> [s EXCEPT !.transactions = MapSet(@, tx[1].ID, tx[1])],
          err |-> NoErr]

\* MemoryStorage.GetTransaction(txID).
GetTransaction(s, txID) ==
    IF txID \in DOMAIN s.transactions
    THEN [val |-> <<s.transactions[txID]>>, err |-> NoErr]
    ELSE [val |-> <<>>, err |-> <<"transaction not found: ", txID>>]

\* MemoryStorage.DeleteTransaction(txID).
DeleteTransaction(s, txID) ==
    IF txID \in DOMAIN s.transactions
    THEN [s |-> [s EXCEPT !.transactions = MapDelete(@, txID)], err |-> NoErr]
    ELSE [s |-> s, err |-> <<"transaction not found: ", txID>>]

\* MemoryStorage.Clear().
Clear(s) == NewMemoryStorage

\* The blocks handed to SaveBlock: nil, the genesis block, two blocks of
\* height 1 on it (one with the coinbase alone, one with a payment after
\* it) and a block of height 2.
StoredLists ==
    {<<NewCoinbaseTransaction("miner1", BlockReward, 0)>>,
     <<NewCoinbaseTransaction("miner1", BlockReward, 0),
       Spend("genesis", "alice", 20, 30, 0)>>}

StoredBlocks ==
    {<<>>, <<NewGenesisBlock(0)>>}
    \cup {<<Candidate(NewGenesisBlock(0), GenesisDifficulty, txs, 0)>> :
             txs \in StoredLists}
    \cup {<<Candidate(Candidate(NewGenesisBlock(0), GenesisDifficulty,
                                <<NewCoinbaseTransaction("miner1", BlockReward, 0)>>, 0),
                      GenesisDifficulty,
                      <<NewCoinbaseTransaction("alice", BlockReward, 0)>>, 0)>>}

StoredHashes == {b[1].Header.Hash : b \in StoredBlocks \ {<<>>}}
StoredHeights == {b[1].Header.Height : b \in StoredBlocks \ {<<>>}} \cup {-1}
StoredIDs ==
    UNION {{b[1].Transactions[i].ID : i \in 1..Len(b[1].Transactions)} :
              b \in StoredBlocks \ {<<>>}}

\* The transactions handed to SaveTransaction: nil, the transactions of the
\* blocks, and the payment signed after its ID was computed (the same ID,
\* another Signature).
StoredTransactions ==
    {<<>>}
    \cup UNION {{<<b[1].Transactions[i]>> : i \in 1..Len(b[1].Transactions)} :
                  b \in StoredBlocks \ {<<>>}}
    \cup {<<[Spend("genesis", "alice", 20, 30, 0) EXCEPT !.Signature = sig]>> :
             sig \in Signatures}

StoreReturned(op, arg, err, val) ==
    /\ Returned(op, arg, err, val)
    /\ UNCHANGED <<chainVars, now, slices, writes, lastWrite, wallet, mutex, pc, loc>>

DoSaveBlock ==
    \E block \in StoredBlocks, perIteration \in BOOLEAN :
        \E saved \in {SaveBlock(store, block, perIteration)} :
            /\ store' = saved.s
            /\ StoreReturned("SaveBlock", block, saved.err, <<>>)

DoSaveTransaction ==
    \E tx \in StoredTransactions :
        \E saved \in {SaveTransaction(store, tx)} :
            /\ store' = saved.s
            /\ StoreReturned("SaveTransaction", tx, saved.err, <<>>)

DoDeleteBlock ==
    \E hash \in StoredHashes :
        \E deleted \in {DeleteBlock(store, hash)} :
            /\ store' = deleted.s
            /\ StoreReturned("DeleteBlock", <<hash>>, deleted.err, <<>>)

DoDeleteTransaction ==
    \E txID \in StoredIDs :
        \E deleted \in {DeleteTransaction(store, txID)} :
            /\ store' = deleted.s
            /\ StoreReturned("DeleteTransaction", <<txID>>, deleted.err, <<>>)

DoClear ==
    /\ store' = Clear(store)
    /\ StoreReturned("Clear", <<>>, NoErr, <<>>)

DoStorageGetBlock ==
    \E hash \in StoredHashes :
        /\ UNCHANGED store
        /\ StoreReturned("MemoryStorage.GetBlock", <<hash>>,
                         StorageGetBlock(store, hash).err,
                         StorageGetBlock(store, hash).val)

DoGetBlockByHeight ==
    \E height \in StoredHeights :
        /\ UNCHANGED store
        /\ StoreReturned("GetBlockByHeight", <<height>>,
                         GetBlockByHeight(store, height).err,
                         GetBlockByHeight(store, height).val)

DoGetTransaction ==
    \E txID \in StoredIDs :
        /\ UNCHANGED store
        /\ StoreReturned("GetTransaction", <<txID>>,
                         GetTransaction(store, txID).err,
                         GetTransaction(store, txID).val)

NextStore ==
    \/ DoSaveBlock
    \/ DoSaveTransaction
    \/ DoDeleteBlock
    \/ DoDeleteTransaction
    \/ DoClear
    \/ DoStorageGetBlock
    \/ DoGetBlockByHeight
    \/ DoGetTransaction

SpecStore == Init /\ [][NextStore]_vars

\* ================================================================ claims
\* The Blockchain value of the next state.
bcNext == [heap |-> heap', blocks |-> blocks', difficulty |-> difficulty',
           utxoSet |-> utxoSet']

IsPrefix(s, t) == Len(s) <= Len(t) /\ SubSeq(t, 1, Len(s)) = s

\* A step that is a call of AddBlock (every call leaves its own record in
\* ret, and the clock does not move during a call).
AddBlockStep == now' = now /\ ret'.op = "AddBlock"

\* C1: whenever AddBlock returns an error, the block sequence (and the
\* blocks), the UTXO index and the difficulty are what they were before.
C1_FailedAddBlockChangesNothing ==
    [][(AddBlockStep /\ IsErr(ret'.err)) => UNCHANGED chainVars]_vars

\* An AddBlock call failed on a chain that already grew.
C1_Witness == ret.op = "AddBlock" /\ IsErr(ret.err) /\ Len(blocks) >= 2

\* C2: under any interleaving of concurrent AddBlock calls every block at
\* index i > 0 has the hash of the block at i-1 as its PreviousHash and that
\* block's Height + 1 as its Height.
C2_ChainLinked ==
    \A i \in 2..Len(blocks) :
        /\ BlockAt(bc, i).Header.PreviousHash = BlockAt(bc, i - 1).Header.Hash
        /\ BlockAt(bc, i).Header.Height = BlockAt(bc, i - 1).Header.Height + 1

\* Both goroutines appended a block, one of them after finding the mutex
\* taken by the other.
C2_Witness ==
    /\ loc[1].appended >= 1
    /\ loc[2].appended >= 1
    /\ loc[2].contended
    /\ Len(blocks) >= 3

\* C3: in every state reached from NewBlockchain by AddBlock calls, successful
\* or failed, ValidateChain returns nil.
C3_ValidateChainSucceeds == ~IsErr(ValidateChain(bc).err)

\* ValidateChain was called on a chain of three blocks.
C3_Witness == ret.op = "ValidateChain" /\ ~IsErr(ret.err) /\ Len(blocks) >= 3

\* The four header fields C4 is about, the index a block address has in the
\* chain, and the states after exactly one change of one of the fields.
FourFields == {"PreviousHash", "Hash", "MerkleRoot", "Height"}
PositionOf(addr) == CHOOSE i \in 1..Len(blocks) : blocks[i] = addr
OneHeaderChange ==
    /\ writes = 1
    /\ lastWrite.kind = "header"
    /\ lastWrite.field \in FourFields
    /\ lastWrite.changed
    /\ PositionOf(lastWrite.addr) >= 2

\* C4: after one of PreviousHash, Hash, MerkleRoot, Height of the block at
\* index i >= 1 is changed, ValidateChain fails and the failure it reports is
\* the one of index i.
C4_TamperDetectedAtIndex ==
    OneHeaderChange =>
        /\ IsErr(ValidateChain(bc).err)
        /\ ValidateChain(bc).val = PositionOf(lastWrite.addr) - 1

\* The Hash of the block at index 1 of a chain of three blocks was changed:
\* the blocks at index 1 and at index 2 both fail, and index 1 is reported.
C4_Witness ==
    /\ OneHeaderChange
    /\ lastWrite.field = "Hash"
    /\ PositionOf(lastWrite.addr) = 2
    /\ Len(blocks) >= 3

\* The update rule applied to the blocks of a chain from index i on.
RECURSIVE Replay(_, _, _)
Replay(u, chain, i) ==
    IF i > Len(chain) THEN u ELSE Replay(updateUTXOSet(u, chain[i]), chain, i + 1)

\* C5: the UTXO index is what applying the update rule to every block of the
\* chain, once and in chain order, makes of the empty index.
C5_IndexIsReplayOfChain == utxoSet = Replay(EmptyMap, ChainOf(bc), 1)

\* A chain of three blocks in which genesis spent to alice.
C5_Witness ==
    /\ Len(blocks) >= 3
    /\ GetBalance(bc, "genesis") = 30
    /\ GetBalance(bc, "alice") >= 20

\* C6: appending a block whose only transaction is a coinbase of value R to
\* address A raises GetBalance(A) by R and the height by 1 and leaves every
\* other balance as it was.
C6_SoleCoinbaseBlock ==
    [][(/\ AddBlockStep
        /\ ~IsErr(ret'.err)
        /\ Len(ret'.arg) = 1
        /\ IsCoinbase(ret'.arg[1]))
       => LET out == ret'.arg[1].Outputs[1]
          IN /\ GetBalance(bcNext, out.Address) = GetBalance(bc, out.Address) + out.Value
             /\ GetHeight(bcNext) = GetHeight(bc) + 1
             /\ \A a \in (Addresses \cup DOMAIN utxoSet \cup DOMAIN utxoSet')
                         \ {out.Address} :
                   GetBalance(bcNext, a) = GetBalance(bc, a)]_vars

\* A second sole-coinbase block to miner1 was appended.
C6_Witness ==
    /\ ret.op = "AddBlock" /\ ~IsErr(ret.err)
    /\ Len(ret.arg) = 1 /\ IsCoinbase(ret.arg[1])
    /\ ret.arg[1].Outputs[1].Address = "miner1"
    /\ GetBalance(bc, "miner1") >= 2 * BlockReward

\* The state NewBlockchain returns, before any other call.
Fresh == ret.op = "NewBlockchain"

\* C7: a chain fresh from NewBlockchain holds the genesis block alone (height
\* 0, previous hash of 64 zeros, one coinbase to "genesis"), GetHeight() is 0,
\* GetBalance("genesis") is the genesis reward (5000000000 base units: 50
\* coins) and every other balance is 0.
C7_FreshChain ==
    Fresh =>
        /\ Len(blocks) = 1
        /\ BlockAt(bc, 1).Header.Height = 0
        /\ BlockAt(bc, 1).Header.PreviousHash = [i \in 1..64 |-> 0]
        /\ Len(BlockAt(bc, 1).Transactions) = 1
        /\ IsCoinbase(BlockAt(bc, 1).Transactions[1])
        /\ BlockAt(bc, 1).Transactions[1].Outputs = <<TxOutput(50, "genesis")>>
        /\ GetHeight(bc) = 0
        /\ GetBalance(bc, "genesis") = 50
        /\ \A a \in (Addresses \cup DOMAIN utxoSet) \ {"genesis"} : GetBalance(bc, a) = 0

\* The fresh chain, before any call.
C7_Witness == Fresh /\ Len(blocks) = 1 /\ Len(heap) = 1

\* C8: across any operation the block sequence before is a prefix of the one
\* after, index 0 is the genesis block, and only a successful AddBlock extends
\* the sequence, by one block.
C8_AppendOnly ==
    [][/\ IsPrefix(blocks, blocks')
       /\ IsPrefix(ChainOf(bc), ChainOf(bcNext))
       /\ BlockAt(bcNext, 1) = NewGenesisBlock(0)
       /\ (blocks' # blocks =>
              /\ AddBlockStep
              /\ ~IsErr(ret'.err)
              /\ Len(blocks') = Len(blocks) + 1)]_vars

\* A successful AddBlock extended a chain of two blocks.
C8_Witness == ret.op = "AddBlock" /\ ~IsErr(ret.err) /\ Len(blocks) >= 3

\* Everything the chain reports about itself.
Reports(c) ==
    <<ChainOf(c), [a \in Addresses |-> GetBalance(c, a)], ValidateChain(c)>>

\* C9: a write through a value an accessor returned (the header fields or the
\* transactions of a returned block included) changes nothing the chain
\* reports: not its blocks, not a balance, not the result of ValidateChain.
C9_WritesToReturnedValuesStayOutside ==
    [][writes' = writes + 1 => Reports(bcNext) = Reports(bc)]_vars

\* C10: two GetAllBlocks calls with no successful AddBlock between them return
\* equal sequences, and writing entries of one returned sequence changes
\* neither the other returned sequence nor the chain's own block order.
C10_GetAllBlocksCopies ==
    /\ (slices[1].full /\ slices[2].full /\ slices[1].gen = slices[2].gen)
          => slices[1].orig = slices[2].orig
    /\ \A k \in 1..2 :
          slices[k].full =>
             /\ IsPrefix(slices[k].orig, blocks)
             /\ (~slices[k].written => SliceElems(slices[k]) = slices[k].orig)

\* Both callers hold the same two-block sequence and the first wrote to its.
C10_Witness ==
    /\ slices[1].full /\ slices[2].full
    /\ slices[1].gen = slices[2].gen
    /\ slices[1].gen >= 2
    /\ slices[1].written /\ ~slices[2].written
    /\ SliceElems(slices[1]) # slices[1].orig

\* The goroutine holds the mutex, in read mode or in write mode.
HoldsRead(t) == mutex.readers[t] > 0
HoldsWrite(t) == mutex.w = t /\ mutex.holding

\* The step is one in which goroutine t reads or writes blocks, difficulty or
\* utxoSet: a step of AddBlock between its Lock and its Unlock, or a read of
\* an accessor or of String.
TouchesFields(t) ==
    \/ pc[t] \in {"ab.mine", "ab.validate", "ab.append", "ab.finish"} /\ pc'[t] # pc[t]
    \/ pc[t] \in {"gh.read", "st.height"} /\ pc'[t] # pc[t]
    \/ loc'[t].sDifficulty # loc[t].sDifficulty /\ loc'[t].sDifficulty # <<>>
    \/ loc'[t].sBlocks # loc[t].sBlocks /\ loc'[t].sBlocks # <<>>

\* C11: every read or write of blocks, difficulty or utxoSet by a Blockchain
\* method happens while the method holds the mutex, a read in read mode (or
\* better) and the writes of AddBlock in write mode.
C11_FieldsTouchedUnderMutex ==
    [][\A t \in Threads :
          TouchesFields(t) =>
             IF pc[t] \in {"ab.mine", "ab.validate", "ab.append", "ab.finish"}
             THEN HoldsWrite(t)
             ELSE HoldsRead(t) \/ HoldsWrite(t)]_vars

\* A block is appended and its UTXO changes and difficulty adjustment are
\* still to come.
PartiallyApplied == \E w \in Threads : pc[w] = "ab.finish"

\* C12: a reader that sees the new block in the chain also sees what the block
\* brought with it: a String() result that counts the block of height
\* AdjustInterval among the blocks shows the difficulty as adjusted for it.
C12_ReaderSeesWholeBlocks ==
    \A t \in Threads :
        (/\ loc[t].sBlocks # <<>>
         /\ loc[t].sDifficulty # <<>>
         /\ loc[t].sBlocks[1] = AdjustInterval + 1
         /\ Len(blocks) = AdjustInterval + 1
         /\ ~PartiallyApplied)
        => loc[t].sDifficulty[1] = difficulty

\* The step appends a block whose height is a multiple of AdjustInterval.
AdjustingStep ==
    /\ AddBlockStep
    /\ ~IsErr(ret'.err)
    /\ Len(blocks') = Len(blocks) + 1
    /\ Tip(bcNext).Header.Height % 10 = 0

\* C13: the difficulty changes only in a successful AddBlock whose new block
\* has a height that is a multiple of 10; every other step (a read, the
\* clock, a failed AddBlock, an AddBlock at another height) leaves it alone.
C13_DifficultyChangesOnlyAtTens ==
    [][difficulty' # difficulty => AdjustingStep]_vars

\* The block of height 10 was appended and the difficulty is no longer the
\* initial one.
C13_Witness ==
    /\ ret.op = "AddBlock" /\ ~IsErr(ret.err)
    /\ Len(blocks) = 11
    /\ difficulty # 4

\* C14: when a block at a height that is a multiple of 10 is appended, with
\* delta its timestamp minus its predecessor's: delta < 30 raises the
\* difficulty by 1, delta > 60 with difficulty > 1 lowers it by 1, and in
\* every other case the difficulty stays.
C14_AdjustmentRule ==
    [][AdjustingStep =>
          LET delta == Tip(bcNext).Header.Timestamp - Tip(bc).Header.Timestamp
          IN difficulty' = IF delta < 30 THEN difficulty + 1
                           ELSE IF delta > 60 /\ difficulty > 1 THEN difficulty - 1
                           ELSE difficulty]_vars

\* The block of height 40, mined at difficulty 1 and 61 seconds after its
\* predecessor, was appended and the difficulty is still 1.
C14_Witness ==
    /\ ret.op = "AddBlock" /\ ~IsErr(ret.err)
    /\ Len(blocks) = 41
    /\ BlockAt(bc, 41).Header.Difficulty = 1
    /\ BlockAt(bc, 41).Header.Timestamp - BlockAt(bc, 40).Header.Timestamp = 61
    /\ difficulty = 1

\* C15: in every reachable state the difficulty is at least 1.
C15_DifficultyPositive == difficulty >= 1

\* The difficulty came down to 1 and a later block of a height that is a
\* multiple of 10 followed its predecessor by more than 60 seconds.
C15_Witness ==
    /\ difficulty = 1
    /\ Len(blocks) >= 41
    /\ BlockAt(bc, 31).Header.Difficulty = 2
    /\ BlockAt(bc, 41).Header.Timestamp - BlockAt(bc, 40).Header.Timestamp > 60

\* C16: after Mine(d) returns on a block NewBlock built from well-formed
\* transactions, Header.Difficulty is d, Header.Hash is the hash of the final
\* header and begins with d zero digits, and Validate against the predecessor
\* succeeds.
C16_MinedBlockIsValid ==
    /\ ret.op = "Mine" =>
          LET b == ret.val[1]
              d == ret.arg[1]
          IN /\ b.Header.Difficulty = d
             /\ b.Header.Hash = calculateHash(b)
             /\ Len(b.Header.Hash) >= d
             /\ \A i \in 1..d : b.Header.Hash[i] = 0
             /\ ~IsErr(Validate(b, <<Tip(bc)>>))
    /\ ret.op = "Validate" => ~IsErr(ret.err)

\* A block on a chain of two blocks was mined at difficulty 4 or more, not
\* with the first nonce, and validated.
C16_Witness ==
    /\ ret.op = "Validate"
    /\ ret.arg[1] >= 4
    /\ ret.val[1].Header.Nonce > 1
    /\ Len(ret.val[1].Transactions) = 2
    /\ Len(blocks) >= 2

\* The list has exactly one transaction without inputs, and has it first.
OneCoinbaseFirst(txs) ==
    /\ Len(txs) >= 1
    /\ Len(txs[1].Inputs) = 0
    /\ \A j \in 2..Len(txs) : Len(txs[j].Inputs) > 0

\* C17: every block of the chain holds exactly one coinbase (zero-input)
\* transaction, at index 0, and an AddBlock call whose list is empty, does not
\* start with a coinbase or holds a second coinbase is rejected.
C17_OneCoinbaseFirst ==
    /\ \A i \in 1..Len(blocks) : OneCoinbaseFirst(BlockAt(bc, i).Transactions)
    /\ (ret.op = "AddBlock" /\ ~OneCoinbaseFirst(ret.arg)) => IsErr(ret.err)

\* A list of two coinbase transactions, valid each, was rejected on a chain
\* of two blocks.
C17_Witness ==
    /\ ret.op = "AddBlock" /\ IsErr(ret.err)
    /\ Len(ret.arg) = 2
    /\ \A j \in 1..2 : Len(ret.arg[j].Inputs) = 0 /\ ~IsErr(TxValidate(ret.arg[j]))
    /\ Len(blocks) >= 2

\* C18: Transaction.Validate rejects every transaction that has no output or
\* has an output whose value is zero or negative, coinbase transactions
\* included.
C18_NonPositiveOutputsRejected ==
    ret.op = "Transaction.Validate" =>
        LET tx == ret.arg[1]
        IN (Len(tx.Outputs) = 0 \/ \E i \in 1..Len(tx.Outputs) : tx.Outputs[i].Value <= 0)
           => IsErr(ret.err)

\* The sum of the values of the first k entries of outs.
RECURSIVE PrefixSum(_, _)
PrefixSum(outs, k) ==
    IF k = 0 THEN 0 ELSE PrefixSum(outs, k - 1) + outs[k].Value

\* C19: CreateTransaction(from, to, amount) fails with "insufficient funds"
\* and returns no transaction whenever the values of all outputs indexed
\* under from sum to less than amount.
C19_InsufficientFundsRejected ==
    ret.op = "CreateTransaction" =>
        LET utxos == FindUTXO(bc, ret.arg[1])
        IN PrefixSum(utxos, Len(utxos)) < ret.arg[3]
           => ret.err = <<"insufficient funds">> /\ ret.val = <<>>

\* C20: a CreateTransaction call for a positive amount that succeeds selects
\* the shortest prefix of the sender's indexed outputs whose values sum to
\* at least the amount, and returns a transaction with one input naming the
\* sender per selected output, a first output of the amount to the
\* recipient, and a second output of the excess to the sender exactly when
\* the selected sum exceeds the amount, so that the outputs sum to the
\* selected sum.
C20_ShortestPrefixWithChange ==
    (ret.op = "CreateTransaction" /\ ~IsErr(ret.err) /\ ret.arg[3] > 0) =>
        LET from == ret.arg[1]
            to == ret.arg[2]
            amount == ret.arg[3]
            utxos == FindUTXO(bc, from)
            tx == ret.val[1]
            k == Len(tx.Inputs)
            selected == PrefixSum(utxos, k)
        IN /\ Len(ret.val) = 1
           /\ k \in 1..Len(utxos)
           /\ selected >= amount
           /\ \A j \in 0..(k - 1) : PrefixSum(utxos, j) < amount
           /\ \A i \in 1..k : tx.Inputs[i] = TxInput(EmptyString, 0, from, EmptyString)
           /\ tx.Outputs[1] = TxOutput(amount, to)
           /\ Len(tx.Outputs) = (IF selected > amount THEN 2 ELSE 1)
           /\ selected > amount => tx.Outputs[2] = TxOutput(selected - amount, from)
           /\ PrefixSum(tx.Outputs, Len(tx.Outputs)) = selected

\* A call that needed two of three indexed outputs and returned change.
C20_Witness ==
    /\ ret.op = "CreateTransaction" /\ ~IsErr(ret.err) /\ ret.arg[3] > 0
    /\ Len(FindUTXO(bc, ret.arg[1])) = 3
    /\ Len(ret.val[1].Inputs) = 2
    /\ Len(ret.val[1].Outputs) = 2

\* The operations that only read the chain, and CreateTransaction.
ReadOperations ==
    {"CreateTransaction", "GetBalance", "FindUTXO", "GetBlock", "GetBlockByHash",
     "GetLatestBlock", "GetHeight", "GetDifficulty", "GetAllBlocks",
     "GetTransactionByID", "ValidateChain"}

\* C21: the block sequence, the blocks, the UTXO index and the difficulty
\* change only in a step that is a successful AddBlock; a step that is a
\* call of CreateTransaction or of a read operation leaves them unchanged.
C21_OnlyAddBlockChangesIndex ==
    [][/\ (utxoSet' # utxoSet \/ blocks' # blocks \/ difficulty' # difficulty
           \/ ChainOf(bcNext) # ChainOf(bc))
          => (AddBlockStep /\ ~IsErr(ret'.err))
       /\ (now' = now /\ ret'.op \in ReadOperations)
          => UNCHANGED <<blocks, utxoSet, difficulty, heap>>]_vars

\* CreateTransaction returned a transaction spending from genesis on a chain
\* of two blocks, and the output it selected is still indexed.
C21_Witness ==
    /\ ret.op = "CreateTransaction" /\ ~IsErr(ret.err)
    /\ ret.arg[1] = "genesis" /\ ret.arg[3] = 40
    /\ Len(blocks) >= 2
    /\ FindUTXO(bc, "genesis") = <<TxOutput(GenesisReward, "genesis")>>

\* C22: an AddBlock call whose mined candidate passes Block.Validate against
\* the tip returns nil and appends that candidate, whatever transaction ID,
\* output index and public key the inputs of its transactions carry and
\* whether or not the index holds an output of the spender.
C22_InputStageNeverRejects ==
    [][LET lastBlock == Tip(bc)
           newBlock == Candidate(lastBlock, difficulty, ret'.arg, now)
       IN (AddBlockStep /\ ~IsErr(Validate(newBlock, <<lastBlock>>)))
          => /\ ~IsErr(ret'.err)
             /\ Len(blocks') = Len(blocks) + 1
             /\ Tip(bcNext) = newBlock]_vars

\* The first block after genesis was appended although the input of its
\* second transaction names alice, who never had an indexed output, a
\* transaction ID no transaction has and the output index 5.
C22_Witness ==
    /\ ret.op = "AddBlock" /\ ~IsErr(ret.err)
    /\ Len(blocks) = 2
    /\ Len(ret.arg) = 2
    /\ ret.arg[2].Inputs = <<TxInput(<<0, 0>>, 5, "alice", EmptyString)>>
    /\ "alice" \notin DOMAIN utxoSet
    /\ Tip(bc).Transactions = ret.arg

\* The candidate a goroutine inside AddBlock holds has been mined: it carries
\* the difficulty it was mined at, a hash that meets that target, and that
\* hash is the hash of its header.
IsMined(b) ==
    /\ b.Header.Hash = calculateHash(b)
    /\ isHashValid(b.Header.Hash, getTarget(b.Header.Difficulty))

\* C23: inside one AddBlock call the candidate is mined, then validated,
\* then appended, in that order: a goroutine validates only the candidate it
\* has just mined, and the chain grows only by the append of a goroutine
\* whose mined candidate has passed Block.Validate and the input check. A
\* candidate that failed validation is in no position of the chain, and the
\* blocks of the chain before a step are a prefix of those after it.
C23_MinedThenValidatedThenAppended ==
    [][/\ \A t \in Threads :
            /\ (pc'[t] = "ab.validate" /\ pc[t] # "ab.validate")
               => /\ pc[t] = "ab.mine"
                  /\ IsMined(loc'[t].newBlock[1])
                  /\ UNCHANGED chainVars
            /\ (pc'[t] = "ab.append" /\ pc[t] # "ab.append")
               => /\ pc[t] = "ab.validate"
                  /\ loc'[t].newBlock = loc[t].newBlock
                  /\ ~IsErr(Validate(loc[t].newBlock[1], loc[t].lastBlock))
                  /\ ~IsErr(validateTransactions(bc, loc[t].newBlock[1]))
                  /\ UNCHANGED chainVars
            /\ (pc[t] = "ab.validate" /\ pc'[t] # "ab.validate"
                /\ IsErr(Validate(loc[t].newBlock[1], loc[t].lastBlock)))
               => /\ pc'[t] = "ab.unlock"
                  /\ IsErr(loc'[t].err)
                  /\ UNCHANGED chainVars
            /\ (pc[t] = "ab.unlock" /\ IsErr(loc[t].err))
               => /\ pc'[t] \in {"ab.unlock", "idle"}
                  /\ \A i \in 1..Len(blocks') : BlockAt(bcNext, i) # loc[t].newBlock[1]
       /\ blocks' # blocks
          => \E t \in Threads :
                /\ pc[t] = "ab.append" /\ pc'[t] = "ab.finish"
                /\ IsMined(loc[t].newBlock[1])
                /\ ~IsErr(Validate(loc[t].newBlock[1], loc[t].lastBlock))
                /\ ChainOf(bcNext) = Append(ChainOf(bc), loc[t].newBlock[1])
       /\ IsPrefix(ChainOf(bc), ChainOf(bcNext))]_vars

\* One goroutine's candidate has failed validation and is about to be
\* discarded, on a chain the other goroutine has extended.
C23_Witness ==
    \E t \in Threads, u \in Threads :
        /\ t # u
        /\ pc[t] = "ab.unlock" /\ IsErr(loc[t].err)
        /\ loc[u].appended >= 1
        /\ Len(blocks) >= 2
        /\ \A i \in 1..Len(blocks) : BlockAt(bc, i) # loc[t].newBlock[1]

\* ids with the entries at positions i and j exchanged.
Swapped(ids, i, j) == [ids EXCEPT ![i] = ids[j], ![j] = ids[i]]

\* C24: the merkle root of the empty list is the empty string, the root of
\* a list of one transaction is that transaction's ID, and in a list of two
\* or more IDs exchanging two IDs that differ changes the root.
C24_MerkleRootOrderSensitive ==
    ret.op = "calculateMerkleRoot" =>
        LET ids == ret.arg
        IN /\ Len(ids) = 0 => ret.val = EmptyString
           /\ Len(ids) = 1 => ret.val = ids[1]
           /\ \A i \in 1..Len(ids), j \in 1..Len(ids) :
                 ids[i] # ids[j]
                 => calculateMerkleRoot(WithIDs(Swapped(ids, i, j))) # ret.val

\* C25: the transaction DeserializeTransaction returns for the data of
\* Serialize equals the serialized transaction in every field and passes
\* Validate if that one did; and so for blocks, DeserializeBlock and
\* Block.Validate.
C25_SerializeRoundTrip ==
    /\ ret.op = "DeserializeTransaction"
       => /\ ret.val[1] = ret.arg[1]
          /\ ~IsErr(TxValidate(ret.arg[1])) => ~IsErr(TxValidate(ret.val[1]))
    /\ ret.op = "DeserializeBlock"
       => /\ ret.val[1] = ret.arg[1]
          /\ ~IsErr(Validate(ret.arg[1], <<>>)) => ~IsErr(Validate(ret.val[1], <<>>))

\* C26: when a transaction handler has received from, to and a positive
\* amount and CreateTransaction has succeeded for them, the handler answers
\* OK and the chain holds a block with that transaction: the node handler
\* answers with the transaction, the wallet handler with the status
\* "confirmed" and a height of the chain.
C26_HandlerAppendsTransaction ==
    (/\ ret.op \in TransactionHandlers
     /\ Len(ret.arg) = 4
     /\ ret.arg[1] # "" /\ ret.arg[2] # "" /\ ret.arg[3] > 0)
    => LET tx == ret.arg[4]
       IN /\ ret.val[1] = "OK"
          /\ \E i \in 2..Len(blocks) :
                \E k \in 1..Len(BlockAt(bc, i).Transactions) :
                    BlockAt(bc, i).Transactions[k] = tx
          /\ ret.op = "handleCreateTransaction" => ret.val[2] = tx
          /\ ret.op = "WalletHandler.CreateTransaction"
             => /\ ret.val[2].status = "confirmed"
                /\ ret.val[2].transaction_id = tx.ID
                /\ ret.val[2].block_height \in 1..GetHeight(bc)

\* C27: a call of Wallet.CreateTransaction that finds the chain balance of
\* the wallet's address covering the amount returns, with a transaction
\* whose Signature is set and whose every input carries the wallet's public
\* key and that signature.
C27_WalletCreateTransactionReturns ==
    (WalletAt("ct.create"))
    ~> (/\ WalletAt("idle")
        /\ ret.op = "Wallet.CreateTransaction"
        /\ ~IsErr(ret.err)
        /\ ret.val[1].Signature \in Signatures
        /\ \A i \in 1..Len(ret.val[1].Inputs) :
              /\ ret.val[1].Inputs[i].PublicKey = PublicKeyHex
              /\ ret.val[1].Inputs[i].Signature = ret.val[1].Signature)

\* The conditions of C28 on a block and its predecessor, in their order,
\* and what Validate reports when one fails.
BlockConditions(b, previousBlock) ==
    <<b.Header.Hash = calculateHash(b),
      previousBlock = <<>> \/ b.Header.PreviousHash = previousBlock[1].Header.Hash,
      previousBlock = <<>> \/ b.Header.Height = previousBlock[1].Header.Height + 1,
      b.Header.MerkleRoot = calculateMerkleRoot(b.Transactions),
      Len(b.Transactions) > 0,
      Len(b.Transactions) > 0 /\ IsCoinbase(b.Transactions[1]),
      \A i \in 1..Len(b.Transactions) : ~IsErr(TxValidate(b.Transactions[i])),
      Cardinality({i \in 1..Len(b.Transactions) : IsCoinbase(b.Transactions[i])}) = 1>>

BlockReports ==
    <<"invalid block hash", "invalid previous hash", "invalid block height",
      "invalid merkle root", "block must contain at least one transaction",
      "first transaction must be coinbase", "invalid transaction",
      "block must contain exactly one coinbase transaction">>

\* The conditions that fail.
FailingConditions(b, previousBlock) ==
    {k \in 1..Len(BlockReports) : ~BlockConditions(b, previousBlock)[k]}

\* C28: Block.Validate succeeds exactly when all eight conditions hold, and
\* otherwise reports the first of them, in their order, that fails.
C28_BlockValidateFirstFailure ==
    ret.op = "Block.Validate"
    => LET failing == FailingConditions(ret.arg[1], ret.arg[2])
       IN /\ ret.err = NoErr <=> failing = {}
          /\ failing # {}
             => \E k \in failing :
                   /\ \A j \in failing : k <= j
                   /\ ret.err[1] = BlockReports[k]

\* Validate named a failure while a later condition failed as well.
C28_Witness ==
    /\ ret.op = "Block.Validate"
    /\ ret.err = <<"invalid previous hash">>
    /\ Cardinality(FailingConditions(ret.arg[1], ret.arg[2])) >= 3

\* The four fields the ID is computed over.
Identified(tx) == <<tx.Inputs, tx.Outputs, tx.Timestamp, tx.Signature>>

\* C29: Transaction.Validate leaves the transaction as it is and succeeds
\* exactly when the stored ID is the hash recomputed over the four fields
\* and the transaction has, with inputs, at least one output and only
\* positive output values, or, without inputs, exactly one output; a
\* transaction whose four fields changed after its ID was computed fails
\* with the ID mismatch.
C29_TxValidateAndChanges ==
    (ret.op = "Transaction.Validate" /\ Len(ret.arg) = 2)
    => LET original == ret.arg[1]
           tx == ret.arg[2]
       IN /\ ret.val = <<tx>>
          /\ ret.err = NoErr
             <=> /\ tx.ID = calculateID(tx)
                 /\ Len(tx.Inputs) > 0
                    => /\ Len(tx.Outputs) >= 1
                       /\ \A i \in 1..Len(tx.Outputs) : tx.Outputs[i].Value > 0
                 /\ Len(tx.Inputs) = 0 => Len(tx.Outputs) = 1
          /\ Identified(tx) # Identified(original)
             => ret.err = <<"invalid transaction ID">>

\* What C30 says a block does to the index, as a list of steps in order: per
\* transaction, one removal per input if the transaction has inputs, then
\* one append per output.
TxSteps(tx) ==
    [k \in 1..(Len(tx.Inputs) + Len(tx.Outputs)) |->
        IF k <= Len(tx.Inputs)
        THEN [kind |-> "remove", key |-> tx.Inputs[k].PublicKey, out |-> <<>>]
        ELSE [kind |-> "append", key |-> tx.Outputs[k - Len(tx.Inputs)].Address,
              out |-> <<tx.Outputs[k - Len(tx.Inputs)]>>]]

RECURSIVE BlockSteps(_, _)
BlockSteps(txs, i) ==
    IF i > Len(txs) THEN <<>> ELSE TxSteps(txs[i]) \o BlockSteps(txs, i + 1)

\* The bucket of an address, empty when there is none.
Bucket(u, a) == IF a \in DOMAIN u THEN u[a] ELSE <<>>

\* One step: the oldest entry leaves a bucket that has one, or the output
\* joins the end of its bucket; an address keeps a bucket while it has
\* entries.
AfterStep(u, step) ==
    LET had == Bucket(u, step.key)
        has == IF step.kind = "append" THEN had \o step.out
               ELSE IF had = <<>> THEN had
               ELSE SubSeq(had, 2, Len(had))
    IN [a \in (DOMAIN u \ {step.key}) \cup (IF has = <<>> THEN {} ELSE {step.key}) |->
           IF a = step.key THEN has ELSE u[a]]

RECURSIVE AfterSteps(_, _, _)
AfterSteps(u, steps, k) ==
    IF k > Len(steps) THEN u ELSE AfterSteps(AfterStep(u, steps[k]), steps, k + 1)

\* C30: the index after a block was appended is the index before it with
\* the block's transactions applied in order: per input of a transaction
\* that has inputs, the oldest entry of the bucket under the input's
\* PublicKey removed if there is one (and the bucket deleted when that
\* empties it), then each output appended to the bucket of its address.
C30_BlockAppliedToIndex ==
    [][(ret'.op = "AddBlock" /\ Len(blocks') = Len(blocks) + 1)
       => utxoSet' = AfterSteps(utxoSet, BlockSteps(Tip(bcNext).Transactions, 1), 1)]_vars

\* A block was appended whose spend took the older of two entries of
\* different values.
C30_Witness ==
    /\ ret.op = "AddBlock"
    /\ ~IsErr(ret.err)
    /\ Len(Tip(bc).Transactions) = 2
    /\ Tip(bc).Transactions[1].Outputs[1].Value = 30
    /\ "miner1" \in DOMAIN utxoSet
    /\ [i \in 1..Len(utxoSet["miner1"]) |-> utxoSet["miner1"][i].Value] = <<30, 30>>

\* The reference fold of C31: the pairs of a level from position i on, left
\* to right, the last leaf paired with itself when it has no neighbour, and
\* the levels repeated until one hash remains.
RECURSIVE PairsFrom(_, _)
PairsFrom(level, i) ==
    IF i > Len(level) THEN <<>>
    ELSE <<Sha256Hex(level[i] \o level[IF i < Len(level) THEN i + 1 ELSE i])>>
         \o PairsFrom(level, i + 2)

RECURSIVE ReferenceFold(_)
ReferenceFold(level) ==
    IF Len(level) = 1 THEN level[1] ELSE ReferenceFold(PairsFrom(level, 1))

\* C31: for two or more leaves the merkle root is the reference fold of the
\* transaction IDs.
C31_MerkleRootIsReferenceFold ==
    (ret.op = "calculateMerkleRoot" /\ Len(ret.arg) >= 2)
    => ret.val = ReferenceFold(ret.arg)

\* The root of three leaves, the last of which was paired with itself.
C31_Witness ==
    /\ ret.op = "calculateMerkleRoot"
    /\ Len(ret.arg) = 3
    /\ ret.val = Sha256Hex(Sha256Hex(ret.arg[1] \o ret.arg[2])
                           \o Sha256Hex(ret.arg[3] \o ret.arg[3]))

\* The block at every index carries the index as its height, the height the
\* chain reports is that of the latest block, and a GetBlock that just
\* returned gave the block of the height asked for, or the error and no
\* block when the height is outside 0..GetHeight().
HeightsAreIndexes ==
    /\ \A i \in 1..Len(blocks) : BlockAt(bc, i).Header.Height = i - 1
    /\ GetHeight(bc) = Tip(bc).Header.Height
    /\ ret.op = "GetBlock"
       => LET h == ret.arg[1]
          IN /\ ~IsErr(ret.err) <=> (0 <= h /\ h <= GetHeight(bc))
             /\ ~IsErr(ret.err)
                => /\ ret.val[1] = blocks[h + 1]
                   /\ heap[ret.val[1]].Header.Height = h
             /\ IsErr(ret.err) => ret.val[1] = NilPtr

\* C32: in every reachable state the block at index i has height i, so
\* GetHeight() is the latest block's height, and GetBlock(h) returns the
\* block of height h exactly when 0 <= h <= GetHeight() and an error
\* otherwise; a GetBlock call changes nothing of the chain.
C32_HeightsAreIndexes ==
    /\ []HeightsAreIndexes
    /\ [][(now' = now /\ ret'.op = "GetBlock") => UNCHANGED chainVars]_vars

\* GetBlock returned a block that AddBlock appended.
C32_Witness ==
    /\ ret.op = "GetBlock"
    /\ ~IsErr(ret.err)
    /\ ret.arg[1] = 2
    /\ heap[ret.val[1]].Header.Height = 2

\* A goroutine is inside CreateTransaction.
InCreateTransaction(t) ==
    pc[t] \in {"ct.rlock", "fu.rlock", "fu.read", "fu.runlock", "ct.build", "ct.runlock"}

\* C33: under any interleaving of CreateTransaction and AddBlock calls,
\* every CreateTransaction call returns in the end, unless a mining search
\* is still in flight.
C33_CreateTransactionReturns ==
    \A t \in Threads :
        InCreateTransaction(t) ~> (pc[t] = "idle" \/ MiningInFlight)

\* The sum of the balances of all addresses that have a bucket.
RECURSIVE SumBalances(_, _)
SumBalances(c, as) ==
    IF as = {} THEN 0
    ELSE LET a == CHOOSE x \in as : TRUE
         IN GetBalance(c, a) + SumBalances(c, as \ {a})

\* The sum of the output values of the coinbase transactions of txs from
\* position j on, and of all blocks of the chain from index i on.
RECURSIVE CoinbaseValue(_, _)
CoinbaseValue(txs, j) ==
    IF j > Len(txs) THEN 0
    ELSE (IF IsCoinbase(txs[j]) THEN SumValues(txs[j].Outputs, 1) ELSE 0)
         + CoinbaseValue(txs, j + 1)

RECURSIVE ChainCoinbaseValue(_, _)
ChainCoinbaseValue(c, i) ==
    IF i > Len(c.blocks) THEN 0
    ELSE CoinbaseValue(BlockAt(c, i).Transactions, 1) + ChainCoinbaseValue(c, i + 1)

\* C34: with every spend of the chain made by CreateTransaction, the sum of
\* all balances is the sum of the coinbase output values of all blocks, in
\* every reachable state, a spend appended twice included.
C34_ValueConserved ==
    SumBalances(bc, DOMAIN utxoSet) = ChainCoinbaseValue(bc, 1)

\* C35: a block that passed Validate and whose transaction list was then
\* replaced by a different list of transactions that each pass
\* Transaction.Validate, the header left as it was, fails Validate.
C35_ReplacedListFailsValidate ==
    (/\ ret.op = "Block.Validate"
     /\ Len(ret.arg) = 2
     /\ ret.arg[2] # ret.arg[1].Transactions
     /\ ret.val[1].Header = ret.arg[1].Header
     /\ \A i \in 1..Len(ret.arg[2]) : ~IsErr(TxValidate(ret.arg[2][i])))
    => IsErr(ret.err)

\* C36: a transaction that CreateTransaction returned and SignTransaction
\* then signed (Signature set, every input carrying the public key and the
\* signature) passes Transaction.Validate.
C36_SignedTransactionValidates ==
    (/\ ret.op = "Transaction.Validate"
     /\ ret.arg[1].Signature \in Signatures
     /\ \A i \in 1..Len(ret.arg[1].Inputs) :
           /\ ret.arg[1].Inputs[i].PublicKey = PublicKeyHex
           /\ ret.arg[1].Inputs[i].Signature = ret.arg[1].Signature)
    => ~IsErr(ret.err)

\* The hash of the block's header as stored begins with as many zero digits
\* as the difficulty stored in the same header.
MeetsOwnTarget(b) ==
    isHashValid(b.Header.Hash, getTarget(b.Header.Difficulty))

\* C37: every block after the genesis block satisfies its own proof of
\* work: its stored hash begins with Header.Difficulty zero digits; and the
\* difficulty a block carries is the chain's difficulty at the moment of its
\* append, that is the difficulty before the adjustment the same append may
\* make.
C37_BlocksMeetOwnProofOfWork ==
    /\ [](\A i \in 2..Len(blocks) : MeetsOwnTarget(BlockAt(bc, i)))
    /\ [][blocks' # blocks
          => /\ Len(blocks') = Len(blocks) + 1
             /\ Tip(bcNext).Header.Difficulty = difficulty
             /\ \A i \in 1..Len(blocks) : BlockAt(bcNext, i) = BlockAt(bc, i)]_vars

\* The block at height AdjustInterval carries the difficulty it was mined at
\* while the chain has since moved to another one.
C37_Witness ==
    /\ Len(blocks) > AdjustInterval + 1
    /\ BlockAt(bc, AdjustInterval + 1).Header.Difficulty = InitialDifficulty
    /\ Tip(bc).Header.Difficulty # InitialDifficulty
    /\ difficulty = Tip(bc).Header.Difficulty

\* C38: with the auto-mining goroutine running beside the request, the block
\* the POST /blocks/mine handler returns is the block the request's own
\* AddBlock call appended.
C38_HandlerReturnsOwnBlock ==
    (/\ pc[Roles.caller] = "idle"
     /\ ret.op = "handleMineBlock"
     /\ ~IsErr(ret.err))
    => ret.val = loc[Roles.caller].args

\* C39: the hash index and the height index of the storage agree after any
\* sequence of SaveBlock, DeleteBlock and Clear: when some block stored
\* under its hash has height h, GetBlockByHeight(h) returns a block; and
\* every block GetBlockByHeight returns is the block GetBlock returns for
\* its hash.  Two saved blocks may share a height.
C39_IndexesAgree ==
    /\ \A hash \in DOMAIN store.blocks :
          ~IsErr(GetBlockByHeight(store, store.blocks[hash].Header.Height).err)
    /\ \A height \in DOMAIN store.blocksByHeight :
          LET found == GetBlockByHeight(store, height).val[1]
          IN StorageGetBlock(store, found.Header.Hash) =
                 [val |-> <<found>>, err |-> NoErr]

\* C40: right after SaveBlock(b) has returned without an error,
\* GetTransaction(id) returns, for the ID of every transaction of b, a
\* transaction with that ID and with the inputs and outputs of that
\* transaction of b.
C40_SavedTransactionsFound ==
    (ret.op = "SaveBlock" /\ ~IsErr(ret.err))
    => \A i \in 1..Len(ret.arg[1].Transactions) :
          LET tx == ret.arg[1].Transactions[i]
              got == GetTransaction(store, tx.ID)
          IN /\ ~IsErr(got.err)
             /\ got.val[1].ID = tx.ID
             /\ got.val[1].Inputs = tx.Inputs
             /\ got.val[1].Outputs = tx.Outputs
====
